---------------------------- MODULE Spec2Model ----------------------------
(***************************************************************************)
(* Model of the trademark similarity engine and record assembler of the    *)
(* TrademarkAI backend (backend/src/services/similarityService.js with     *)
(* the vector and parser services, backend/src/controllers/                *)
(* similarityController.js and the types of backend/README.md).            *)
(*                                                                         *)
(* Representation choices                                                  *)
(*  - a string is a sequence of one-character strings;                     *)
(*  - a score is an exact rational <<n, d>> in lowest terms with d > 0     *)
(*    (JavaScript computes the same expressions in binary floating point); *)
(*  - an embedding vector is a record [len, v]: len is the length of the   *)
(*    JavaScript array and v holds its components projected on a few      *)
(*    integer coordinates, chosen with integral Euclidean norm so that the *)
(*    cosine is rational;                                                  *)
(*  - JavaScript undefined is the value Undefined, a thrown Error is a     *)
(*    record [error |-> message].                                          *)
(***************************************************************************)
EXTENDS Integers, Sequences, FiniteSets, TLC

----------------------------------------------------------------------------
(* Bounds of the model *)

\* largest number of records the vector index returns to one analysis
MaxCorpus == 2
\* largest topK a request carries in the model (the controller allows 1..50)
MaxTopK == 2
\* largest length of the list handed to deduplicateTrademarks
MaxDedup == 3
\* largest number of page chunks of a parsed document
MaxPages == 2
\* largest number of sections of the full text of a parsed document
MaxSections == 2
\* largest length of the strings over two letters the lexical measures are
\* applied to
MaxLen == 5
\* largest number of target trademarks a report request carries
MaxTargets == 2
\* texts are up to MaxWindows nominal chunk sizes long, and a little more
MaxWindows == 2
\* largest number of trademark entries in a document text
MaxEntries == 2
\* largest number of upload requests the server receives
MaxUploads == 2
\* documents have up to MaxBatches full batches of pages, and one page more
MaxBatches == 2

----------------------------------------------------------------------------
(* Exact rational arithmetic *)

\* JavaScript undefined; strings are sequences of characters, so that the two
\* can be compared
Undefined == <<"undefined">>

Abs(x) == IF x < 0 THEN -x ELSE x

Min2(a, b) == IF a <= b THEN a ELSE b

Max2(a, b) == IF a >= b THEN a ELSE b

RECURSIVE Gcd(_, _)
Gcd(a, b) == IF b = 0 THEN a ELSE Gcd(b, a % b)

\* the rational n/d in lowest terms, d # 0
R(n, d) ==
  LET g == Gcd(Abs(n), Abs(d))
      s == IF d < 0 THEN -1 ELSE 1
  IN  <<(s * n) \div g, (s * d) \div g>>

Lcm(a, b) == (a \div Gcd(a, b)) * b

RAdd(x, y) ==
  LET l == Lcm(x[2], y[2])
  IN  R(x[1] * (l \div x[2]) + y[1] * (l \div y[2]), l)

RNeg(x) == <<-x[1], x[2]>>

RSub(x, y) == RAdd(x, RNeg(y))

RMul(x, y) ==
  LET a == R(x[1], y[2])
      b == R(y[1], x[2])
  IN  R(a[1] * b[1], a[2] * b[2])

RDiv(x, y) == RMul(x, R(y[2], y[1]))

\* x >= y, compared over the least common denominator
RGe(x, y) ==
  LET l == Lcm(x[2], y[2])
  IN  x[1] * (l \div x[2]) >= y[1] * (l \div y[2])

RLt(x, y) == ~RGe(x, y)

RGt(x, y) == RLt(y, x)

Zero == R(0, 1)

One == R(1, 1)

----------------------------------------------------------------------------
(* Strings *)

UpperChars == <<"A", "B", "C", "D", "E", "F", "G", "H", "I", "J", "K", "L", "M",
                "N", "O", "P", "Q", "R", "S", "T", "U", "V", "W", "X", "Y", "Z">>

LowerChars == <<"a", "b", "c", "d", "e", "f", "g", "h", "i", "j", "k", "l", "m",
                "n", "o", "p", "q", "r", "s", "t", "u", "v", "w", "x", "y", "z">>

DigitChars == {"0", "1", "2", "3", "4", "5", "6", "7", "8", "9"}

\* the characters matched by \s that the model uses
WhiteChars == {" ", "\n", "\t"}

Range(s) == {s[i] : i \in DOMAIN s}

\* String.prototype.toLowerCase on one character
toLowerCase(c) ==
  IF \E i \in DOMAIN UpperChars : UpperChars[i] = c
  THEN LowerChars[CHOOSE i \in DOMAIN UpperChars : UpperChars[i] = c]
  ELSE c

\* s.replace(/\s+/g, ' ')
RECURSIVE CollapseWhite(_)
CollapseWhite(s) ==
  IF s = <<>> THEN <<>>
  ELSE IF Head(s) \in WhiteChars
       THEN IF Len(s) > 1 /\ s[2] \in WhiteChars
            THEN CollapseWhite(Tail(s))
            ELSE <<" ">> \o CollapseWhite(Tail(s))
       ELSE <<Head(s)>> \o CollapseWhite(Tail(s))

RECURSIVE TrimLeft(_)
TrimLeft(s) ==
  IF s # <<>> /\ Head(s) \in WhiteChars THEN TrimLeft(Tail(s)) ELSE s

RECURSIVE TrimRight(_)
TrimRight(s) ==
  IF s # <<>> /\ s[Len(s)] \in WhiteChars
  THEN TrimRight(SubSeq(s, 1, Len(s) - 1))
  ELSE s

\* String.prototype.trim
Trim(s) == TrimRight(TrimLeft(s))

normalizeText(text) ==
  LET lower == [i \in DOMAIN text |-> toLowerCase(text[i])]
      kept  == SelectSeq(lower, LAMBDA c : c \in Range(LowerChars)
                                           \/ c \in DigitChars
                                           \/ c \in WhiteChars)
  IN  Trim(CollapseWhite(kept))

----------------------------------------------------------------------------
(* Lexical measures *)

\* a row computed without the substitution term
RECURSIVE LevRowNoSubstitution(_, _, _, _, _)
LevRowNoSubstitution(prev, str1, c2, j, acc) ==
  IF j > Len(str1) THEN acc
  ELSE LET cell == IF c2 = str1[j]
                   THEN prev[j]
                   ELSE Min2(acc[j] + 1, prev[j + 1] + 1)
       IN  LevRowNoSubstitution(prev, str1, c2, j + 1, Append(acc, cell))

\* one row of the dynamic-programming matrix: row i from row i-1
RECURSIVE LevRow(_, _, _, _, _)
LevRow(prev, str1, c2, j, acc) ==
  IF j > Len(str1) THEN acc
  ELSE LET cell == IF c2 = str1[j]
                   THEN prev[j]
                   ELSE Min2(prev[j] + 1, Min2(acc[j] + 1, prev[j + 1] + 1))
       IN  LevRow(prev, str1, c2, j + 1, Append(acc, cell))

RECURSIVE LevRows(_, _, _, _)
LevRows(prev, str1, str2, i) ==
  IF i > Len(str2) THEN prev
  ELSE LevRows(LevRow(prev, str1, str2[i], 1, <<i>>), str1, str2, i + 1)

\* rows are sequences indexed from 1: element j+1 of a row is matrix[i][j]
levenshteinDistance(str1, str2) ==
  LET row0 == [j \in 1..(Len(str1) + 1) |-> j - 1]
  IN  LevRows(row0, str1, str2, 1)[Len(str1) + 1]

calculateLevenshteinSimilarity(str1, str2) ==
  LET distance  == levenshteinDistance(str1, str2)
      maxLength == Max2(Len(str1), Len(str2))
  IN  IF maxLength = 0 THEN One ELSE RSub(One, R(distance, maxLength))

\* the first unmatched position j of str2 in start..end-1 (0-based) carrying
\* character c, or -1
RECURSIVE JaroFind(_, _, _, _, _)
JaroFind(c, str2, m2, j, end) ==
  IF j >= end THEN -1
  ELSE IF j \in m2 \/ c # str2[j + 1]
       THEN JaroFind(c, str2, m2, j + 1, end)
       ELSE j

\* the matching loop: the sets of matched 0-based positions of both strings
RECURSIVE JaroMatch(_, _, _, _, _, _)
JaroMatch(str1, str2, matchWindow, i, m1, m2) ==
  IF i >= Len(str1) THEN <<m1, m2>>
  ELSE LET start == Max2(0, i - matchWindow)
           end   == Min2(i + matchWindow + 1, Len(str2))
           j     == JaroFind(str1[i + 1], str2, m2, start, end)
       IN  IF j = -1
           THEN JaroMatch(str1, str2, matchWindow, i + 1, m1, m2)
           ELSE JaroMatch(str1, str2, matchWindow, i + 1,
                          m1 \cup {i}, m2 \cup {j})

RECURSIVE JaroSkip(_, _)
JaroSkip(m2, k) == IF k \in m2 THEN k ELSE JaroSkip(m2, k + 1)

\* the transposition loop
RECURSIVE JaroTrans(_, _, _, _, _, _, _)
JaroTrans(str1, str2, m1, m2, i, k, t) ==
  IF i >= Len(str1) THEN t
  ELSE IF i \notin m1
       THEN JaroTrans(str1, str2, m1, m2, i + 1, k, t)
       ELSE LET kk == JaroSkip(m2, k)
            IN  JaroTrans(str1, str2, m1, m2, i + 1, kk + 1,
                          IF str1[i + 1] # str2[kk + 1] THEN t + 1 ELSE t)

\* a match window taken from the length of the first string
MatchWindowOfFirst(str1, str2) == (Len(str1) \div 2) - 1

\* Math.floor(Math.max(str1.length, str2.length) / 2) - 1
MatchWindow(str1, str2) == (Max2(Len(str1), Len(str2)) \div 2) - 1

jaroSimilarity(str1, str2) ==
  IF Len(str1) = 0 /\ Len(str2) = 0 THEN One
  ELSE IF Len(str1) = 0 \/ Len(str2) = 0 THEN Zero
  ELSE
    LET matchWindow == MatchWindow(str1, str2)
        mm          == JaroMatch(str1, str2, matchWindow, 0, {}, {})
        matches     == Cardinality(mm[1])
        transpositions == JaroTrans(str1, str2, mm[1], mm[2], 0, 0, 0)
    IN  IF matches = 0 THEN Zero
        ELSE RDiv(RAdd(RAdd(R(matches, Len(str1)), R(matches, Len(str2))),
                       RDiv(RSub(R(matches, 1), R(transpositions, 2)),
                            R(matches, 1))),
                  R(3, 1))

RECURSIVE CommonPrefix(_, _, _, _)
CommonPrefix(str1, str2, i, limit) ==
  IF i < limit /\ str1[i + 1] = str2[i + 1]
  THEN CommonPrefix(str1, str2, i + 1, limit)
  ELSE i

calculateJaroWinklerSimilarity(str1, str2) ==
  LET jaroSim == jaroSimilarity(str1, str2)
      prefix  == CommonPrefix(str1, str2, 0,
                              Min2(Len(str1), Min2(Len(str2), 4)))
  IN  IF RLt(jaroSim, R(7, 10)) THEN jaroSim
      ELSE RAdd(jaroSim, RMul(R(prefix, 10), RSub(One, jaroSim)))

\* the length k reached by the inner while loop from 0-based positions i, j
RECURSIVE CommonRun(_, _, _, _, _)
CommonRun(str1, str2, i, j, k) ==
  IF i + k < Len(str1) /\ j + k < Len(str2) /\ str1[i + k + 1] = str2[j + k + 1]
  THEN CommonRun(str1, str2, i, j, k + 1)
  ELSE k

\* pairs (i, j) are visited in row-major order; longest is replaced only by
\* a strictly longer run
RECURSIVE LcsScan(_, _, _, _)
LcsScan(str1, str2, p, longest) ==
  IF p >= Len(str1) * Len(str2) THEN longest
  ELSE LET i == p \div Len(str2)
           j == p % Len(str2)
           k == CommonRun(str1, str2, i, j, 0)
       IN  LcsScan(str1, str2, p + 1,
                   IF k > Len(longest) THEN SubSeq(str1, i + 1, i + k)
                   ELSE longest)

longestCommonSubstring(str1, str2) == LcsScan(str1, str2, 0, <<>>)

calculateSubstringSimilarity(str1, str2) ==
  LET longer == IF Len(str1) > Len(str2) THEN str1 ELSE str2
  IN  IF Len(longer) = 0 THEN One
      ELSE R(Len(longestCommonSubstring(str1, str2)), Len(longer))

\* the characters x -> ks etc. of phoneticMap; other characters map to themselves
phoneticMap(c) ==
  CASE c = "c" -> <<"k">>
    [] c = "q" -> <<"k">>
    [] c = "x" -> <<"k", "s">>
    [] c = "f" -> <<"p">>
    [] c = "v" -> <<"p">>
    [] c = "j" -> <<"y">>
    [] c = "z" -> <<"s">>
    [] OTHER   -> <<c>>

RECURSIVE FlatMap(_)
FlatMap(s) == IF s = <<>> THEN <<>> ELSE phoneticMap(Head(s)) \o FlatMap(Tail(s))

\* s.replace(/(.)\1+/g, '$1'); "." does not match a line terminator
RECURSIVE SquashRuns(_)
SquashRuns(s) ==
  IF Len(s) < 2 THEN s
  ELSE IF s[1] = s[2] /\ s[1] # "\n"
       THEN SquashRuns(Tail(s))
       ELSE <<Head(s)>> \o SquashRuns(Tail(s))

generatePhoneticCode(text) == SquashRuns(FlatMap(normalizeText(text)))

calculatePhoneticSimilarity(phonetic1, phonetic2) ==
  calculateLevenshteinSimilarity(phonetic1, phonetic2)

----------------------------------------------------------------------------
(* JavaScript values *)

\* null, as a record so that it can stand where an object may stand
Null == [null |-> TRUE]

IsNull(x) == "null" \in DOMAIN x

\* a thrown Error
Error(msg) == [error |-> msg]

IsError(x) == "error" \in DOMAIN x

\* obj.f, undefined when the object has no such property
Get(obj, f) == IF f \in DOMAIN obj THEN obj[f] ELSE Undefined

\* truthiness of a string or undefined
Truthy(v) == v # Undefined /\ v # <<>>

\* a || b
Or(a, b) == IF Truthy(a) THEN a ELSE b

\* s.split(' ')[0]
RECURSIVE FirstWord(_)
FirstWord(s) ==
  IF s = <<>> \/ Head(s) = " " THEN <<>> ELSE <<Head(s)>> \o FirstWord(Tail(s))

----------------------------------------------------------------------------
(* Records: TrademarkData and TrademarkSearchResult *)

\* the fields of TrademarkData that the engine and the assembler read
TrademarkData(data) ==
  [nomorPermohonan         |-> Or(Get(data, "nomorPermohonan"), <<>>),
   tanggalPenerimaan       |-> Or(Get(data, "tanggalPenerimaan"), <<>>),
   namaPemohon             |-> Or(Get(data, "namaPemohon"), <<>>),
   namaReferensiLabelMerek |-> Or(Get(data, "namaReferensiLabelMerek"), <<>>),
   kelasBarangJasa         |-> Or(Get(data, "kelasBarangJasa"), <<>>),
   uraianBarangJasa        |-> Or(Get(data, "uraianBarangJasa"), <<>>)]

\* TrademarkData.validate().isValid
validateNumberOnly(tm) == Truthy(tm.nomorPermohonan)

validate(tm) ==
  /\ Truthy(tm.nomorPermohonan)
  /\ Truthy(tm.namaReferensiLabelMerek)
  /\ Truthy(tm.kelasBarangJasa)

isValidTrademark(tm) == validate(tm)

\* the first position at or after i that holds no whitespace
RECURSIVE SkipWhite(_, _)
SkipWhite(s, i) ==
  IF i <= Len(s) /\ s[i] \in WhiteChars THEN SkipWhite(s, i + 1) ELSE i

\* the word stands at position i of s, letter case ignored
HasAt(s, i, word) ==
  /\ i + Len(word) - 1 <= Len(s)
  /\ \A k \in DOMAIN word : toLowerCase(s[i + k - 1]) = word[k]

\* s.replace(re, '') for a pattern that runs to the end of the string: the
\* text before the leftmost position at which the pattern matches
CutAtFirst(s, MatchesAt(_, _)) ==
  IF \E p \in DOMAIN s : MatchesAt(s, p)
  THEN SubSeq(s, 1, (CHOOSE p \in DOMAIN s :
                       /\ MatchesAt(s, p)
                       /\ \A q \in 1..(p - 1) : ~MatchesAt(s, q)) - 1)
  ELSE s

\* text.replace(/\s*:\s*$/, '')
StripTrailingColon(s) ==
  LET t == TrimRight(s)
  IN  IF t # <<>> /\ t[Len(t)] = ":"
      THEN TrimRight(SubSeq(t, 1, Len(t) - 1)) ELSE s

cleanExtractedText(text) ==
  IF ~Truthy(text) THEN <<>>
  ELSE Trim(StripTrailingColon(CollapseWhite(Trim(text))))

\* /\s+Merek\s+Kata.*$/i matches at p
MerekKataAt(s, p) ==
  /\ s[p] \in WhiteChars
  /\ LET q == SkipWhite(s, p)
     IN  /\ HasAt(s, q, <<"m", "e", "r", "e", "k">>)
         /\ q + 5 <= Len(s)
         /\ s[q + 5] \in WhiteChars
         /\ HasAt(s, SkipWhite(s, q + 5), <<"k", "a", "t", "a">>)

\* /\s+\d{3}.*$/ matches at p
TrailingNumberAt(s, p) ==
  /\ s[p] \in WhiteChars
  /\ LET q == SkipWhite(s, p)
     IN  /\ q + 2 <= Len(s)
         /\ \A k \in q..(q + 2) : s[k] \in DigitChars

\* the cleaning parseSection applies to the mark name
CleanMarkName(name) ==
  LET noColon  == IF name # <<>> /\ Head(name) = ":"
                  THEN TrimLeft(Tail(name)) ELSE name
      noSuffix == CutAtFirst(noColon, MerekKataAt)
      noNumber == CutAtFirst(noSuffix, TrailingNumberAt)
  IN  Trim(noNumber)

\* the first position at or after i that holds no character of the set
RECURSIVE SkipChars(_, _, _)
SkipChars(s, i, chars) ==
  IF i <= Len(s) /\ s[i] \in chars THEN SkipChars(s, i + 1, chars) ELSE i

\* s.replace(/^[A-Z]+\s+\d+\s*/, '')
StripColourPrefix(s) ==
  LET a == SkipChars(s, 1, Range(UpperChars))
      b == SkipWhite(s, a)
      c == SkipChars(s, b, DigitChars)
  IN  IF a > 1 /\ b > a /\ c > b
      THEN SubSeq(s, SkipWhite(s, c), Len(s)) ELSE s

SemicolonAt(s, p) == s[p] = ";"

\* the cleaning parseSection applies to the description of goods/services
CleanDescription(description) ==
  Trim(CutAtFirst(StripColourPrefix(description), SemicolonAt))

\* the fields of TRADEMARK_PATTERNS, in the order of Object.entries
PatternFields ==
  <<"nomorPermohonan", "tanggalPenerimaan", "namaPemohon",
    "namaReferensiLabelMerek", "kelasBarangJasa", "uraianBarangJasa",
    "tipeMerek", "uraianWarna", "artiBahasa", "alamatPemohon", "namaKuasa",
    "alamatKuasa">>

\* the number of patterns TRADEMARK_PATTERNS lists for a field
PatternCount(field) ==
  CASE field = "nomorPermohonan"         -> 4
    [] field = "tanggalPenerimaan"       -> 3
    [] field = "namaPemohon"             -> 4
    [] field = "namaReferensiLabelMerek" -> 5
    [] field = "kelasBarangJasa"         -> 6
    [] field = "alamatKuasa"             -> 2
    [] OTHER                             -> 3

\* the number of capture groups of the i-th pattern of a field; every group
\* of every pattern is mandatory and matches at least one character
GroupCount(field, i) ==
  IF field = "tanggalPenerimaan"
  THEN (CASE i = 1 -> 6 [] i = 2 -> 1 [] OTHER -> 3)
  ELSE 1

\* A text is represented by what the patterns find in it: for a field, the
\* list of the results of text.match(pattern) over the patterns of the
\* field, each null or a match [groups |-> <<match[1], match[2], ...>>].
MatchesOf(text, field) ==
  IF field \in DOMAIN text THEN text[field]
  ELSE [i \in 1..PatternCount(field) |-> Null]

\* match && match[1]
Matched(match) == ~IsNull(match) /\ Truthy(match.groups[1])

NoPick == [match |-> Null, pattern |-> 0]

\* the pattern loop of parseSection: it runs while no pattern has matched
RECURSIVE SectionLoop(_, _, _)
SectionLoop(matches, i, pick) ==
  IF i > Len(matches) \/ ~IsNull(pick.match) THEN pick
  ELSE IF Matched(matches[i])
       THEN [match |-> matches[i], pattern |-> i]
       ELSE SectionLoop(matches, i + 1,
              [match   |-> matches[i],
               pattern |-> IF IsNull(matches[i]) THEN 0 ELSE i])

\* a loop that goes through every pattern and keeps the last match
FieldsLoopLast(matches, i) ==
  LET found == {j \in i..Len(matches) : Matched(matches[j])}
      last == CHOOSE j \in found : \A k \in found : k <= j
  IN  IF found = {} THEN NoPick ELSE [match |-> matches[last], pattern |-> last]

\* the pattern loop of extractTrademarkFieldsFromText
RECURSIVE FieldsLoop(_, _)
FieldsLoop(matches, i) ==
  IF i > Len(matches) THEN NoPick
  ELSE IF Matched(matches[i])
       THEN [match |-> matches[i], pattern |-> i]
       ELSE FieldsLoop(matches, i + 1)

\* `${match[k]}`: a group that does not exist prints as "undefined"
GroupText(match, k) ==
  IF k <= Len(match.groups) THEN match.groups[k]
  ELSE <<"u", "n", "d", "e", "f", "i", "n", "e", "d">>

\* match[k] || ''
GroupOrEmpty(match, k) ==
  IF k <= Len(match.groups) THEN match.groups[k] ELSE <<>>

DateTime(g) ==
  g[1] \o <<"/">> \o g[2] \o <<"/">> \o g[3] \o <<" ">> \o g[4] \o <<":">>
    \o g[5] \o <<":">> \o g[6]

\* the value parseSection stores for a field
SectionValue(field, match) ==
  IF field = "tanggalPenerimaan" /\ Len(match.groups) + 1 > 3
  THEN DateTime([k \in 1..6 |-> GroupText(match, k)])
  ELSE cleanExtractedText(match.groups[1])

\* the value extractTrademarkFieldsFromText stores for a field
FieldValue(field, match) ==
  IF field = "tanggalPenerimaan" /\ Len(match.groups) + 1 > 3
  THEN DateTime([k \in 1..6 |-> IF k <= 3 THEN GroupText(match, k)
                                ELSE GroupOrEmpty(match, k)])
  ELSE cleanExtractedText(match.groups[1])

\* the pattern each extractor selects for a field of a text, 0 for none
SectionPick(text, field) == SectionLoop(MatchesOf(text, field), 1, NoPick)

FieldsPick(text, field) == FieldsLoop(MatchesOf(text, field), 1)

extractTrademarkFieldsFromText(text) ==
  LET found == {f \in Range(PatternFields) : Matched(FieldsPick(text, f).match)}
  IN  [f \in found |-> FieldValue(f, FieldsPick(text, f).match)]

\* cleaned(obj, f, Clean): obj with obj.f replaced by Clean(obj.f) when it
\* is set and not empty
Cleaned(obj, f, Clean(_)) ==
  IF Truthy(Get(obj, f)) THEN [obj EXCEPT ![f] = Clean(obj[f])] ELSE obj

\* parseSection: the TrademarkData built from a section
parseSection(section) ==
  LET found == {f \in Range(PatternFields) :
                  Matched(SectionPick(section, f).match)}
      extractedData ==
        [f \in found |-> SectionValue(f, SectionPick(section, f).match)]
      d1 == Cleaned(extractedData, "namaReferensiLabelMerek", CleanMarkName)
      d2 == Cleaned(d1, "namaPemohon", cleanExtractedText)
      d3 == Cleaned(d2, "namaReferensiLabelMerek", cleanExtractedText)
      d4 == Cleaned(d3, "uraianBarangJasa", CleanDescription)
  IN  TrademarkData(d4)

\* splitIntoSections: a document text is represented by the sections the
\* separators cut it into
splitIntoSections(text) == text.sections

RECURSIVE SectionsLoop(_, _, _)
SectionsLoop(sections, i, trademarks) ==
  IF i > Len(sections) THEN trademarks
  ELSE LET trademarkData == parseSection(sections[i])
       IN  SectionsLoop(sections, i + 1,
             IF isValidTrademark(trademarkData)
             THEN Append(trademarks, trademarkData) ELSE trademarks)

\* extractTrademarkData: a text that is not a string makes splitIntoSections
\* throw, and the catch block returns the empty list
extractTrademarkData(text) ==
  IF IsNull(text) THEN <<>>
  ELSE SectionsLoop(splitIntoSections(text), 1, <<>>)

\* the value extractFieldsFromContext reads for one of its patterns
ContextValue(context, field) ==
  IF field \in DOMAIN context /\ Matched(context[field])
  THEN cleanExtractedText(context[field].groups[1]) ELSE Undefined

extractFieldsFromContext(context, applicationNumber) ==
  TrademarkData(
    [nomorPermohonan         |-> applicationNumber,
     namaPemohon             |-> Or(ContextValue(context, "applicantName"), <<>>),
     namaReferensiLabelMerek |-> Or(ContextValue(context, "trademarkName"), <<>>),
     tanggalPenerimaan       |-> Or(ContextValue(context, "receptionDate"), <<>>),
     kelasBarangJasa         |-> Or(ContextValue(context, "goodsClass"), <<>>)])

RECURSIVE AnchorsLoop(_, _, _)
AnchorsLoop(anchors, i, trademarks) ==
  IF i > Len(anchors) THEN trademarks
  ELSE LET applicationNumber == Trim(anchors[i].groups[1])
           trademarkData ==
             extractFieldsFromContext(anchors[i].context, applicationNumber)
       IN  AnchorsLoop(anchors, i + 1,
             IF isValidTrademark(trademarkData)
             THEN Append(trademarks, trademarkData) ELSE trademarks)

\* parsePageChunk: the content of a page is represented by the matches of
\* the application number pattern in it, each with the matches of the other
\* patterns in the context around it; a page without content makes matchAll
\* throw, and the catch block returns the empty list
parsePageChunk(pageChunk) ==
  IF "content" \notin DOMAIN pageChunk THEN <<>>
  ELSE AnchorsLoop(pageChunk.content, 1, <<>>)

\* the loop of deduplicateTrademarks: seen is the Set of keys, unique the
\* list built so far; the key of a record is its property applicationNumber
RECURSIVE DedupLoop(_, _, _, _)
DedupLoop(trademarks, i, seen, unique) ==
  IF i > Len(trademarks) THEN unique
  ELSE LET key == Get(trademarks[i], "applicationNumber")
       IN  IF key \notin seen
           THEN DedupLoop(trademarks, i + 1, seen \cup {key},
                          Append(unique, trademarks[i]))
           ELSE DedupLoop(trademarks, i + 1, seen, unique)

deduplicateTrademarks(trademarks) == DedupLoop(trademarks, 1, {}, <<>>)

TrademarkSearchResult(data) ==
  [id             |-> Or(Get(data, "id"), <<>>),
   trademarkData  |-> TrademarkData(data.trademarkData),
   sourceDocument |-> Or(Get(data, "sourceDocument"), <<>>),
   extractedText  |-> Or(Get(data, "extractedText"), <<>>)]

\* one match of the index query, as searchSimilarChunks returns it, turned
\* into a TrademarkSearchResult; every match of getAllTrademarks has
\* metadata.type = 'trademark_data' (the filter of the query)
parseSearchResult(result) ==
  LET metadata == result.metadata
      extractedData ==
        [nomorPermohonan         |-> Or(Get(metadata, "nomorPermohonan"), <<>>),
         tanggalPenerimaan       |-> Or(Get(metadata, "tanggalPenerimaan"), <<>>),
         namaPemohon             |-> Or(Get(metadata, "namaPemohon"), <<>>),
         namaReferensiLabelMerek |->
            Or(Or(Get(metadata, "namaReferensiLabelMerek"),
                  Get(metadata, "namaMerek")), <<>>),
         kelasBarangJasa         |-> Or(Get(metadata, "kelasBarangJasa"), <<>>),
         uraianBarangJasa        |-> Or(Get(metadata, "uraianBarangJasa"), <<>>)]
  IN  TrademarkSearchResult(
        [id             |-> Get(result, "id"),
         trademarkData  |-> TrademarkData(extractedData),
         sourceDocument |-> Or(Get(metadata, "filename"),
                               Get(metadata, "documentId")),
         extractedText  |-> Or(Get(metadata, "text"), <<>>)])

\* formatDate of parseSearchResults: a date string holding '/' keeps its
\* first word; the other date strings of the model are not parseable and
\* are returned as they are
formatDate(dateStr) ==
  IF ~Truthy(dateStr) THEN <<>>
  ELSE IF "/" \in Range(dateStr) THEN FirstWord(dateStr)
  ELSE dateStr

parseSearchResults(searchResults) ==
  [i \in DOMAIN searchResults |->
     LET r == parseSearchResult(searchResults[i])
     IN  [r EXCEPT !.trademarkData.tanggalPenerimaan = formatDate(@)]]

\* new Date(s).getTime() on the date strings of the model, month/day with
\* one digit each; NaN for every other string
NaN == 0 - 1

DigitValue(c) ==
  CASE c = "0" -> 0 [] c = "1" -> 1 [] c = "2" -> 2 [] c = "3" -> 3
    [] c = "4" -> 4 [] c = "5" -> 5 [] c = "6" -> 6 [] c = "7" -> 7
    [] c = "8" -> 8 [] c = "9" -> 9

ParseDate(s) ==
  IF s # Undefined /\ Len(s) = 3 /\ s[2] = "/"
       /\ s[1] \in DigitChars /\ s[3] \in DigitChars
  THEN 31 * DigitValue(s[1]) + DigitValue(s[3])
  ELSE NaN

\* a >= b and a <= b on timestamps: false as soon as one side is NaN
DateGe(a, b) == a # NaN /\ b # NaN /\ a >= b

DateLe(a, b) == a # NaN /\ b # NaN /\ a <= b

\* the date filter of getAllTrademarks
DateFilter(trademarks, dateRange) ==
  IF ~IsNull(dateRange) /\ Truthy(dateRange.start) /\ Truthy(dateRange.end)
  THEN SelectSeq(trademarks, LAMBDA tm :
         LET tmDate == ParseDate(Or(Get(tm, "tanggalPenerimaan"),
                                    tm.trademarkData.tanggalPenerimaan))
         IN  /\ DateGe(tmDate, ParseDate(dateRange.start))
             /\ DateLe(tmDate, ParseDate(dateRange.end)))
  ELSE trademarks

----------------------------------------------------------------------------
(* Embeddings *)

\* the character budget of generateEmbedding
maxLength == 8000

\* the length of the fallback vector of generateEmbedding
FallbackDim == 1536

\* the vector lengths of the embedding models the deployment may configure
\* through OPENAI_EMBEDDING_MODEL: the default model and a longer one
ModelDims == {FallbackDim, 2 * FallbackDim}

\* the components the provider answers for a text: a fixed function of the
\* (truncated) text, here of its first character
ProviderComponents(text) ==
  IF text = <<>> THEN <<0, 0, 0, 10>>
  ELSE CASE toLowerCase(Head(text)) = "a" -> <<10, 0, 0, 0>>
         [] toLowerCase(Head(text)) = "b" -> <<9, 3, 3, 1>>
         [] toLowerCase(Head(text)) = "c" -> <<6, 8, 0, 0>>
         [] toLowerCase(Head(text)) = "t" -> <<8, 6, 0, 0>>
         [] OTHER -> <<0, 10, 0, 0>>

\* the values Math.random() gives the fallback vector
FallbackComponents == {<<8, 6, 0, 0>>, <<10, 0, 0, 0>>}

\* generateEmbedding with a catch block that rethrows
generateEmbeddingFailFast(text, dim, outcome) ==
  IF outcome.ok
  THEN [len |-> dim,
        v   |-> ProviderComponents(IF Len(text) > maxLength
                                   THEN SubSeq(text, 1, maxLength) ELSE text)]
  ELSE Error("embedding failed")

\* generateEmbedding: the provider's answer to the truncated text when the
\* call succeeds (outcome.ok); when it fails the catch block returns the
\* random fallback vector and nothing is thrown
generateEmbedding(text, dim, outcome) ==
  LET truncatedText == IF Len(text) > maxLength
                       THEN SubSeq(text, 1, maxLength) ELSE text
  IN  IF outcome.ok
      THEN [len |-> dim, v |-> ProviderComponents(truncatedText)]
      ELSE [len |-> FallbackDim, v |-> outcome.random]

\* the outcomes of one embedding call
EmbeddingOutcomes ==
  {[ok |-> TRUE, random |-> <<>>]}
    \cup {[ok |-> FALSE, random |-> f] : f \in FallbackComponents}

RECURSIVE SumTo(_, _)
SumTo(f, n) == IF n = 0 THEN 0 ELSE f[n] + SumTo(f, n - 1)

Dot(a, b) == SumTo([i \in DOMAIN a |-> a[i] * b[i]], Len(a))

\* Math.sqrt on the perfect squares the model's vectors give
Sqrt(n) == CHOOSE r \in 0..n : r * r = n

\* calculateCosineSimilarity without its length check: the loop runs over
\* the components both vectors have
calculateCosineTruncating(vec1, vec2) ==
  LET dotProduct == Dot(vec1.v, vec2.v)
      norm1      == Dot(vec1.v, vec1.v)
      norm2      == Dot(vec2.v, vec2.v)
  IN  [value |-> R(dotProduct, Sqrt(norm1) * Sqrt(norm2))]

calculateCosineSimilarity(vec1, vec2) ==
  IF vec1.len # vec2.len
  THEN Error("Vectors must have the same length")
  ELSE LET dotProduct == Dot(vec1.v, vec2.v)
           norm1      == Dot(vec1.v, vec1.v)
           norm2      == Dot(vec2.v, vec2.v)
       IN  [value |-> R(dotProduct, Sqrt(norm1) * Sqrt(norm2))]

----------------------------------------------------------------------------
(* The three passes and the fusion of SimilarityService *)

\* the thresholds set by the constructor
DefaultThresholds ==
  [textSimilarity     |-> R(7, 10),
   phoneticSimilarity |-> R(8, 10),
   semanticSimilarity |-> R(6, 10),
   overallSimilarity  |-> R(3, 10)]

\* the mark name the lexical pass resolves for a record
TextPassName(trademark) ==
  Or(Or(Or(Get(trademark, "namaMerek"),
           Get(trademark, "namaReferensiLabelMerek")),
        IF Truthy(Get(trademark, "extractedText"))
        THEN FirstWord(trademark.extractedText) ELSE <<>>),
     <<>>)

\* the three lexical measures of two normalized strings and their weighted
\* combination
LexicalScores(targetNormalized, normalizedTrademark) ==
  LET levenshteinScore == calculateLevenshteinSimilarity(targetNormalized,
                                                         normalizedTrademark)
      jaroWinklerScore == calculateJaroWinklerSimilarity(targetNormalized,
                                                         normalizedTrademark)
      substringScore   == calculateSubstringSimilarity(targetNormalized,
                                                       normalizedTrademark)
  IN  [overall     |-> RAdd(RAdd(RMul(levenshteinScore, R(4, 10)),
                                 RMul(jaroWinklerScore, R(4, 10))),
                            RMul(substringScore, R(2, 10))),
       levenshtein |-> levenshteinScore,
       jaroWinkler |-> jaroWinklerScore,
       substring   |-> substringScore]

TextSimilarityOf(target, trademark) ==
  LexicalScores(normalizeText(target), normalizeText(TextPassName(trademark)))

RECURSIVE TextLoop(_, _, _, _, _)
TextLoop(target, trademarks, th, i, results) ==
  IF i > Len(trademarks) THEN results
  ELSE LET sim == TextSimilarityOf(target, trademarks[i])
       IN  TextLoop(target, trademarks, th, i + 1,
             IF RGe(sim.overall, th.textSimilarity)
             THEN Append(results, [trademark      |-> trademarks[i],
                                   textSimilarity |-> sim])
             ELSE results)

analyzeTextSimilarity(target, trademarks, th) ==
  TextLoop(target, trademarks, th, 1, <<>>)

\* the description the semantic pass reads for a record
DescriptionOf(trademark) ==
  Or(Or(Get(trademark, "uraianBarangJasa"),
        trademark.trademarkData.uraianBarangJasa),
     <<>>)

\* the test without the trim
HasDescriptionUntrimmed(trademark) == Len(DescriptionOf(trademark)) > 0

\* description.trim().length > 0
HasDescription(trademark) == Len(Trim(DescriptionOf(trademark))) > 0

\* description.substring(0, 200) + '...'
DescriptionNote(description) ==
  SubSeq(description, 1, Min2(Len(description), 200)) \o <<".", ".", ".">>

\* the mark name the phonetic pass reads for a record
PhoneticPassName(trademark) == Or(Get(trademark, "namaMerek"), <<>>)

RECURSIVE PhoneticLoop(_, _, _, _, _)
PhoneticLoop(targetPhonetic, trademarks, th, i, results) ==
  IF i > Len(trademarks) THEN results
  ELSE LET trademarkPhonetic ==
             generatePhoneticCode(PhoneticPassName(trademarks[i]))
           phoneticScore ==
             calculatePhoneticSimilarity(targetPhonetic, trademarkPhonetic)
       IN  PhoneticLoop(targetPhonetic, trademarks, th, i + 1,
             IF RGe(phoneticScore, th.phoneticSimilarity)
             THEN Append(results,
                    [trademark          |-> trademarks[i],
                     phoneticSimilarity |->
                       [score             |-> phoneticScore,
                        targetPhonetic    |-> targetPhonetic,
                        trademarkPhonetic |-> trademarkPhonetic]])
             ELSE results)

analyzePhoneticSimilarity(target, trademarks, th) ==
  PhoneticLoop(generatePhoneticCode(target), trademarks, th, 1, <<>>)

\* the identity key of a record in the fusion map
KeyOf(trademark) ==
  Or(Or(Get(trademark, "nomorPermohonan"), Get(trademark, "id")),
     Get(trademark, "sourceDocument"))

\* a Map, as the sequence of its [key, value] entries in insertion order
MapHas(map, key) == \E i \in DOMAIN map : map[i].key = key

MapIndex(map, key) == CHOOSE i \in DOMAIN map : map[i].key = key

MapGet(map, key) == map[MapIndex(map, key)].value

\* Map.prototype.set: a present key keeps its place
MapSet(map, key, value) ==
  IF MapHas(map, key)
  THEN [map EXCEPT ![MapIndex(map, key)].value = value]
  ELSE Append(map, [key |-> key, value |-> value])

MapValues(map) == [i \in DOMAIN map |-> map[i].value]

RECURSIVE CombineText(_, _, _)
CombineText(textResults, i, map) ==
  IF i > Len(textResults) THEN map
  ELSE CombineText(textResults, i + 1,
         MapSet(map, KeyOf(textResults[i].trademark),
                [trademark             |-> textResults[i].trademark,
                 textSimilarity        |-> textResults[i].textSimilarity,
                 descriptionSimilarity |-> Null,
                 phoneticSimilarity    |-> Null]))

\* CombineDesc with a key that prefers the source document
RECURSIVE CombineDescBySource(_, _, _)
CombineDescBySource(descResults, i, map) ==
  IF i > Len(descResults) THEN map
  ELSE LET key == Or(Get(descResults[i].trademark, "sourceDocument"),
                     Get(descResults[i].trademark, "id"))
       IN  CombineDescBySource(descResults, i + 1,
             IF MapHas(map, key)
             THEN [map EXCEPT ![MapIndex(map, key)].value.descriptionSimilarity =
                                descResults[i].descriptionSimilarity]
             ELSE MapSet(map, key,
                    [trademark             |-> descResults[i].trademark,
                     textSimilarity        |-> Null,
                     descriptionSimilarity |->
                        descResults[i].descriptionSimilarity,
                     phoneticSimilarity    |-> Null]))

RECURSIVE CombineDesc(_, _, _)
CombineDesc(descResults, i, map) ==
  IF i > Len(descResults) THEN map
  ELSE LET key == KeyOf(descResults[i].trademark)
       IN  CombineDesc(descResults, i + 1,
             IF MapHas(map, key)
             THEN [map EXCEPT ![MapIndex(map, key)].value.descriptionSimilarity =
                                descResults[i].descriptionSimilarity]
             ELSE MapSet(map, key,
                    [trademark             |-> descResults[i].trademark,
                     textSimilarity        |-> Null,
                     descriptionSimilarity |->
                        descResults[i].descriptionSimilarity,
                     phoneticSimilarity    |-> Null]))

RECURSIVE CombinePhonetic(_, _, _)
CombinePhonetic(phoneticResults, i, map) ==
  IF i > Len(phoneticResults) THEN map
  ELSE LET key == KeyOf(phoneticResults[i].trademark)
       IN  CombinePhonetic(phoneticResults, i + 1,
             IF MapHas(map, key)
             THEN [map EXCEPT ![MapIndex(map, key)].value.phoneticSimilarity =
                                phoneticResults[i].phoneticSimilarity]
             ELSE MapSet(map, key,
                    [trademark             |-> phoneticResults[i].trademark,
                     textSimilarity        |-> Null,
                     descriptionSimilarity |-> Null,
                     phoneticSimilarity    |->
                        phoneticResults[i].phoneticSimilarity]))

\* item.textSimilarity?.overall || 0 and its two siblings
ComponentScore(component, field) ==
  IF IsNull(component) THEN Zero ELSE component[field]

\* the weighted sum of combineAndScoreResults
WeightedScore(textScore, descScore, phoneticScore) ==
  RAdd(RAdd(RMul(textScore, R(4, 10)), RMul(descScore, R(3, 10))),
       RMul(phoneticScore, R(3, 10)))

\* ScoreItem with the weights of the missing components redistributed
ScoreItemRenormalized(item) ==
  LET textScore     == ComponentScore(item.textSimilarity, "overall")
      descScore     == ComponentScore(item.descriptionSimilarity, "semantic")
      phoneticScore == ComponentScore(item.phoneticSimilarity, "score")
      weight == (IF IsNull(item.textSimilarity) THEN 0 ELSE 4)
                  + (IF IsNull(item.descriptionSimilarity) THEN 0 ELSE 3)
                  + (IF IsNull(item.phoneticSimilarity) THEN 0 ELSE 3)
  IN  [trademark             |-> item.trademark,
       textSimilarity        |-> item.textSimilarity,
       descriptionSimilarity |-> item.descriptionSimilarity,
       phoneticSimilarity    |-> item.phoneticSimilarity,
       overallScore          |-> RMul(WeightedScore(textScore, descScore,
                                                    phoneticScore),
                                      R(10, weight)),
       similarityBreakdown   |-> [text        |-> textScore,
                                  description |-> descScore,
                                  phonetic    |-> phoneticScore]]

ScoreItem(item) ==
  LET textScore     == ComponentScore(item.textSimilarity, "overall")
      descScore     == ComponentScore(item.descriptionSimilarity, "semantic")
      phoneticScore == ComponentScore(item.phoneticSimilarity, "score")
  IN  [trademark             |-> item.trademark,
       textSimilarity        |-> item.textSimilarity,
       descriptionSimilarity |-> item.descriptionSimilarity,
       phoneticSimilarity    |-> item.phoneticSimilarity,
       overallScore          |-> WeightedScore(textScore, descScore,
                                               phoneticScore),
       similarityBreakdown   |-> [text        |-> textScore,
                                  description |-> descScore,
                                  phonetic    |-> phoneticScore]]

\* the fusion map after the three forEach loops
CombinedMap(textResults, descResults, phoneticResults) ==
  CombinePhonetic(phoneticResults, 1,
    CombineDesc(descResults, 1, CombineText(textResults, 1, <<>>)))

combineAndScoreResults(target, textResults, descResults, phoneticResults) ==
  LET values == MapValues(CombinedMap(textResults, descResults,
                                      phoneticResults))
  IN  [i \in DOMAIN values |-> ScoreItem(values[i])]

\* InsertSorted that puts x before the elements of its own score
RECURSIVE InsertSortedTiesFirst(_, _)
InsertSortedTiesFirst(sorted, x) ==
  IF sorted = <<>> THEN <<x>>
  ELSE IF RGt(Head(sorted).overallScore, x.overallScore)
       THEN <<Head(sorted)>> \o InsertSortedTiesFirst(Tail(sorted), x)
       ELSE <<x>> \o sorted

\* the place of x in a list sorted by non-increasing overallScore: behind
\* every element that does not sort after it (Array.prototype.sort is stable)
RECURSIVE InsertSorted(_, _)
InsertSorted(sorted, x) ==
  IF sorted = <<>> THEN <<x>>
  ELSE IF RGe(Head(sorted).overallScore, x.overallScore)
       THEN <<Head(sorted)>> \o InsertSorted(Tail(sorted), x)
       ELSE <<x>> \o sorted

\* list.sort((a, b) => b.overallScore - a.overallScore)
RECURSIVE SortByScore(_, _)
SortByScore(list, sorted) ==
  IF list = <<>> THEN sorted
  ELSE SortByScore(Tail(list), InsertSorted(sorted, Head(list)))

\* slice with an end that is one too far
SliceOneMore(list, topK) == SubSeq(list, 1, Min2(Len(list), topK + 1))

\* list.slice(0, topK) for topK >= 0
Slice(list, topK) == SubSeq(list, 1, Min2(Len(list), topK))

\* FilterSortSlice that filters by the threshold of the constructor
FilterSortSliceStale(combinedResults, th, topK) ==
  Slice(SortByScore(SelectSeq(combinedResults, LAMBDA result :
                       RGe(result.overallScore,
                           DefaultThresholds.overallSimilarity)),
                    <<>>),
        topK)

\* the filter, sort and slice at the end of analyzeSimilarity
FilterSortSlice(combinedResults, th, topK) ==
  Slice(SortByScore(SelectSeq(combinedResults, LAMBDA result :
                       RGe(result.overallScore, th.overallSimilarity)),
                    <<>>),
        topK)

----------------------------------------------------------------------------
(* State *)

VARIABLES
  thresholds,       \* similarityService.thresholds
  adminResponse,    \* the last response of the threshold admin surface
  index,            \* the matches the vector index returns, in score order
  modelDim,         \* the vector length of the configured embedding model
  pc,               \* where the analyzeSimilarity call stands
  target,           \* targetTrademark of the call
  options,          \* options of the call
  allTrademarks,    \* allTrademarks of the call
  textResults,      \* textSimilarityResults of the call
  targetEmbedding,  \* targetEmbedding of analyzeDescriptionSimilarity
  idx,              \* position of the record whose embedding is awaited
  descResults,      \* results of analyzeDescriptionSimilarity
  phoneticResults,  \* phoneticSimilarityResults of the call
  combinedResults,  \* combinedResults of the call
  response,         \* what the call returned or threw
  failedCalls,      \* the embedding calls of the call that failed
  prev,             \* the previous call, its inputs and its response
  dedupInput,       \* argument of deduplicateTrademarks
  dedupOutput,      \* its return value, once it has returned
  parser,           \* a call of parseTrademarkDataEnhanced
  strings,          \* a pair of strings and the lexical measures of it
  report,           \* a call of generateSimilarityReport
  chunker,          \* a call of splitIntoChunks
  fields,           \* a text and the patterns the field extractors select
  splitter,         \* a call of createSemanticChunks on a processed text
  upload,           \* an upload request, its temporary file and its progress
  store             \* a call of storePageBasedDocument

configVars == <<thresholds, adminResponse>>

worldVars == <<index, modelDim>>

callVars == <<pc, target, options, allTrademarks, textResults, targetEmbedding,
              idx, descResults, phoneticResults, combinedResults, response,
              failedCalls>>

dedupVars == <<dedupInput, dedupOutput>>

engineVars == <<configVars, worldVars, callVars, prev>>

flowVars == <<splitter, upload, store>>

notSplitter == <<upload, store>>

notUpload == <<splitter, store>>

notStore == <<splitter, upload>>

toolVars == <<parser, strings, report, chunker, fields, flowVars>>

notParser == <<strings, report, chunker, fields, flowVars>>

notStrings == <<parser, report, chunker, fields, flowVars>>

notReport == <<parser, strings, chunker, fields, flowVars>>

notChunker == <<parser, strings, report, fields, flowVars>>

notFields == <<parser, strings, report, chunker, flowVars>>

docVars == <<dedupVars, toolVars>>

vars == <<engineVars, docVars>>

----------------------------------------------------------------------------
(* Inputs *)

\* metadata of the trademark vectors the index may hold: two records of one
\* application number, and a record without mark name and with a blank
\* description
MetadataPool ==
  { [text |-> <<"a", "b", " ", "x">>, nomorPermohonan |-> <<"1">>,
     namaReferensiLabelMerek |-> <<"a", "b">>, kelasBarangJasa |-> <<"5">>,
     uraianBarangJasa |-> <<"b", "x">>, tanggalPenerimaan |-> <<"1", "/", "1">>,
     documentId |-> <<"d">>],
    [text |-> <<"A", "x">>, nomorPermohonan |-> <<"1">>,
     namaReferensiLabelMerek |-> <<"A", "x">>, kelasBarangJasa |-> <<"5">>,
     uraianBarangJasa |-> <<"b", "q">>,
     tanggalPenerimaan |-> <<"1", "/", "2", " ", "9">>,
     documentId |-> <<"d">>],
    [uraianBarangJasa |-> <<" ">>, documentId |-> <<"e">>] }

\* the identifiers of the vectors of the index, all different
VectorId(i) == <<"v", CHOOSE c \in DigitChars : DigitValue(c) = i>>

\* the index contents: up to MaxCorpus matches with different identifiers
Indexes ==
  UNION { { [i \in 1..n |-> [id |-> VectorId(i), metadata |-> f[i]]]
            : f \in [1..n -> MetadataPool] } : n \in 0..MaxCorpus }

Targets == { <<"a", "b">>, <<"!">> }

\* the default of options.topK
DefaultTopK == 20

DateRanges == { Null, [start |-> <<"1", "/", "1">>, end |-> <<"1", "/", "1">>] }

\* the options a request may carry; an absent key takes its default
OptionsSet ==
  { [topK |-> k] : k \in 1..MaxTopK }
  \cup { [includePhonetic |-> FALSE] }
  \cup { [dateRange |-> dr] : dr \in DateRanges }

TopKOf(opts) == IF "topK" \in DOMAIN opts THEN opts.topK ELSE DefaultTopK

IncludePhoneticOf(opts) ==
  IF "includePhonetic" \in DOMAIN opts THEN opts.includePhonetic ELSE TRUE

DateRangeOf(opts) ==
  IF "dateRange" \in DOMAIN opts THEN opts.dateRange ELSE Null

ThresholdKeys ==
  {"textSimilarity", "phoneticSimilarity", "semanticSimilarity",
   "overallSimilarity"}

\* the request body of the PUT thresholds sent while analyses run, an
\* accepted one
CallBodies ==
  { [thresholds |-> [phoneticSimilarity |-> Zero,
                     semanticSimilarity |-> R(19, 20),
                     overallSimilarity |-> R(3, 5)]] }

\* request bodies of PUT thresholds: accepted ones and rejected ones
ThresholdBodies ==
  CallBodies \cup
  { [thresholds |-> [overallSimilarity |-> R(1, 4)]],
    [thresholds |-> [overallSimilarity |-> R(3, 2)]],
    [thresholds |-> [textSimilarity |-> R(1, 2),
                     overallSimilarity |-> R(3, 10)]],
    [thresholds |-> [semanticSimilarity |-> One]],
    [thresholds |-> [phoneticSimilarity |-> R(0 - 1, 10)]],
    [thresholds |-> [textSimilarity |-> R(1, 2),
                     visualSimilarity |-> R(1, 2)]],
    [limits |-> [maxTopK |-> One]] }

Reverse(s) == [i \in DOMAIN s |-> s[Len(s) + 1 - i]]

\* the orders in which the index answers a query: matches come by score
\* against the query vector, the order of index for the provider's embedding
\* of the query text; for a fallback vector the model takes that order or
\* its reverse
\* an index that answers in either order whatever the query vector
QueryOrdersUnordered(outcome) == {index, Reverse(index)}

QueryOrders(outcome) == IF outcome.ok THEN {index} ELSE {index, Reverse(index)}

----------------------------------------------------------------------------
(* The threshold admin surface: SimilarityController *)

\* a schema that checks the keys of thresholds and not the range of their
\* numbers
ValidThresholdBodyAnyNumber(body) ==
  /\ DOMAIN body = {"thresholds"}
  /\ DOMAIN body.thresholds \subseteq ThresholdKeys

\* the Joi schema of updateThresholds: thresholds is required, holds only
\* the four keys, each a number in [0, 1]
ValidThresholdBody(body) ==
  /\ DOMAIN body = {"thresholds"}
  /\ DOMAIN body.thresholds \subseteq ThresholdKeys
  /\ \A k \in DOMAIN body.thresholds :
       RGe(body.thresholds[k], Zero) /\ RGe(One, body.thresholds[k])

\* Object.assign replaced by an assignment of the source object
ObjectAssignOverwrite(obj, source) == source

\* Object.assign(target, source)
ObjectAssign(obj, source) ==
  [k \in DOMAIN obj \cup DOMAIN source |->
     IF k \in DOMAIN source THEN source[k] ELSE obj[k]]

NoResponse == [op |-> "none"]

\* an update that writes one of the supplied keys per step
updateThresholdsKeyByKey(body) ==
  /\ IF ValidThresholdBody(body)
     THEN \E k \in DOMAIN body.thresholds :
            /\ thresholds' = [thresholds EXCEPT ![k] = body.thresholds[k]]
            /\ adminResponse' = [op |-> "updateThresholds", status |-> 200,
                                 body |-> body, newThresholds |-> thresholds']
     ELSE /\ thresholds' = thresholds
          /\ adminResponse' = [op |-> "updateThresholds", status |-> 400,
                               body |-> body]
  /\ UNCHANGED <<worldVars, callVars, prev, docVars>>

\* the handler runs from validation to response without an await: the merge
\* is one step
updateThresholds(body) ==
  /\ IF ValidThresholdBody(body)
     THEN /\ thresholds' = ObjectAssign(thresholds, body.thresholds)
          /\ adminResponse' = [op |-> "updateThresholds", status |-> 200,
                               body |-> body, newThresholds |-> thresholds']
     ELSE /\ thresholds' = thresholds
          /\ adminResponse' = [op |-> "updateThresholds", status |-> 400,
                               body |-> body]
  /\ UNCHANGED <<worldVars, callVars, prev, docVars>>

getConfiguration ==
  /\ adminResponse' = [op |-> "getConfiguration", status |-> 200,
                       thresholds |-> thresholds]
  /\ UNCHANGED <<thresholds, worldVars, callVars, prev, docVars>>

----------------------------------------------------------------------------
(* analyzeSimilarity, one step per await on a collaborator *)

NoVector == [len |-> 0, v |-> <<>>]

\* the call enters getAllTrademarks and waits for vectorService.search
AnalyzeStart(t, opts) ==
  /\ pc = "idle"
  /\ pc' = "search"
  /\ target' = t
  /\ options' = opts
  /\ UNCHANGED <<allTrademarks, textResults, targetEmbedding, idx, descResults,
                 phoneticResults, combinedResults, response, failedCalls>>
  /\ UNCHANGED <<configVars, worldVars, prev, docVars>>

\* the first record at position >= from whose description is not blank, or
\* Len + 1 when the loop of the semantic pass is over
RECURSIVE NextWithDescription(_, _)
NextWithDescription(trademarks, from) ==
  IF from > Len(trademarks) \/ HasDescription(trademarks[from]) THEN from
  ELSE NextWithDescription(trademarks, from + 1)

\* steps 4 to 6 of analyzeSimilarity, run without a further await on a
\* collaborator once the semantic pass has returned
Finish(descs) ==
  LET phonetics ==
        IF IncludePhoneticOf(options)
        THEN analyzePhoneticSimilarity(target, allTrademarks, thresholds)
        ELSE <<>>
      combined == combineAndScoreResults(target, textResults, descs, phonetics)
  IN  /\ phoneticResults' = phonetics
      /\ combinedResults' = combined
      /\ response' = [targetTrademark   |-> target,
                      totalCompared     |-> Len(allTrademarks),
                      similarTrademarks |->
                        FilterSortSlice(combined, thresholds, TopKOf(options))]
      /\ pc' = "done"

\* the loop of the semantic pass runs on to its next await, or to its end
Continue(from, descs) ==
  LET next == NextWithDescription(allTrademarks, from)
  IN  /\ descResults' = descs
      /\ idx' = next
      /\ IF next > Len(allTrademarks)
         THEN Finish(descs)
         ELSE /\ pc' = "embedDescription"
              /\ UNCHANGED <<phoneticResults, combinedResults, response>>

\* vectorService.search answers with the matches in one of the orders of
\* QueryOrders; the lexical pass runs and the embedding of the target is
\* requested
SearchDone(outcome, matches) ==
  /\ pc = "search"
  /\ matches \in QueryOrders(outcome)
  /\ allTrademarks' = DateFilter(parseSearchResults(matches),
                                 DateRangeOf(options))
  /\ textResults' = analyzeTextSimilarity(target, allTrademarks', thresholds)
  /\ failedCalls' = IF outcome.ok THEN {} ELSE {[call |-> "search", i |-> 0]}
  /\ pc' = "embedTarget"
  /\ UNCHANGED <<target, options, targetEmbedding, idx, descResults,
                 phoneticResults, combinedResults, response>>
  /\ UNCHANGED <<configVars, worldVars, prev, docVars>>

\* the index query throws: getAllTrademarks and analyzeSimilarity rethrow
SearchFail ==
  /\ pc = "search"
  /\ pc' = "failed"
  /\ response' = Error("index query failed")
  /\ UNCHANGED <<target, options, allTrademarks, textResults, targetEmbedding,
                 idx, descResults, phoneticResults, combinedResults,
                 failedCalls>>
  /\ UNCHANGED <<configVars, worldVars, prev, docVars>>

\* generateEmbedding(target) returns
TargetEmbedded(outcome) ==
  /\ pc = "embedTarget"
  /\ failedCalls' = IF outcome.ok THEN failedCalls
                    ELSE failedCalls \cup {[call |-> "target", i |-> 0]}
  /\ LET embedding == generateEmbedding(target, modelDim, outcome)
     IN  IF IsError(embedding)
         THEN /\ pc' = "failed"
              /\ response' = embedding
              /\ UNCHANGED <<targetEmbedding, idx, descResults,
                             phoneticResults, combinedResults>>
         ELSE /\ targetEmbedding' = embedding
              /\ Continue(1, <<>>)
  /\ UNCHANGED <<target, options, allTrademarks, textResults>>
  /\ UNCHANGED <<configVars, worldVars, prev, docVars>>

\* the semantic threshold as the constructor set it
SemanticThresholdAtConstruction == DefaultThresholds.semanticSimilarity

\* this.thresholds.semanticSimilarity, read when a score is compared
SemanticThreshold == thresholds.semanticSimilarity

\* generateEmbedding(description) returns for the record at idx
DescriptionEmbedded(outcome) ==
  /\ pc = "embedDescription"
  /\ LET trademark     == allTrademarks[idx]
         description   == DescriptionOf(trademark)
         descEmbedding == generateEmbedding(description, modelDim, outcome)
         semanticScore == IF IsError(descEmbedding) THEN descEmbedding
                          ELSE calculateCosineSimilarity(targetEmbedding,
                                                         descEmbedding)
     IN  /\ failedCalls' = IF outcome.ok THEN failedCalls
                           ELSE failedCalls
                                  \cup {[call |-> "description", i |-> idx]}
         /\ IF IsError(semanticScore)
            THEN /\ pc' = "failed"
                 /\ response' = semanticScore
                 /\ UNCHANGED <<idx, descResults, phoneticResults,
                                combinedResults>>
            ELSE Continue(idx + 1,
                   IF RGe(semanticScore.value, SemanticThreshold)
                   THEN Append(descResults,
                          [trademark             |-> trademark,
                           descriptionSimilarity |->
                             [semantic    |-> semanticScore.value,
                              description |-> DescriptionNote(description)]])
                   ELSE descResults)
  /\ UNCHANGED <<target, options, allTrademarks, textResults, targetEmbedding>>
  /\ UNCHANGED <<configVars, worldVars, prev, docVars>>

NoCall == [called |-> FALSE]

NotReturned == [returned |-> FALSE]

NoParse == [pc |-> "idle"]

NoStrings == [pc |-> "idle"]

NoReport == [pc |-> "idle"]

NoChunks == [pc |-> "idle"]

NoFields == [pc |-> "idle"]

NoSplit == [pc |-> "idle"]

NoUpload == [pc |-> "idle"]

NoStore == [pc |-> "idle"]

FlowsIdle ==
  /\ splitter = NoSplit
  /\ upload = NoUpload
  /\ store = NoStore

\* no call of the document tools is under way
ToolsIdle ==
  /\ FlowsIdle
  /\ parser = NoParse
  /\ strings = NoStrings
  /\ report = NoReport
  /\ chunker = NoChunks
  /\ fields = NoFields

IdleCall ==
  /\ pc = "idle"
  /\ target = <<>>
  /\ options = [dateRange |-> Null]
  /\ allTrademarks = <<>>
  /\ textResults = <<>>
  /\ targetEmbedding = NoVector
  /\ idx = 0
  /\ descResults = <<>>
  /\ phoneticResults = <<>>
  /\ combinedResults = <<>>
  /\ response = Null
  /\ failedCalls = {}

\* the caller has the response; the locals of the call are gone
Return ==
  /\ pc \in {"done", "failed"}
  /\ pc' = "idle"
  /\ target' = <<>>
  /\ options' = [dateRange |-> Null]
  /\ allTrademarks' = <<>>
  /\ textResults' = <<>>
  /\ targetEmbedding' = NoVector
  /\ idx' = 0
  /\ descResults' = <<>>
  /\ phoneticResults' = <<>>
  /\ combinedResults' = <<>>
  /\ response' = Null
  /\ failedCalls' = {}
  /\ UNCHANGED <<configVars, worldVars, prev, docVars>>

----------------------------------------------------------------------------
(* The engine under threshold updates *)

Init ==
  /\ thresholds = DefaultThresholds
  /\ adminResponse = NoResponse
  /\ index \in Indexes
  /\ modelDim \in ModelDims
  /\ IdleCall
  /\ prev = NoCall
  /\ dedupInput = <<>>
  /\ dedupOutput = NotReturned
  /\ ToolsIdle

Next ==
  \/ \E body \in CallBodies : updateThresholds(body)
  \/ \E t \in Targets, opts \in OptionsSet : AnalyzeStart(t, opts)
  \/ \E outcome \in EmbeddingOutcomes :
       \E matches \in QueryOrders(outcome) : SearchDone(outcome, matches)
  \/ SearchFail
  \/ \E outcome \in EmbeddingOutcomes : TargetEmbedded(outcome)
  \/ \E outcome \in EmbeddingOutcomes : DescriptionEmbedded(outcome)
  \/ Return

Spec == Init /\ [][Next]_vars

----------------------------------------------------------------------------
(* The engine over index matches that carry no id *)

\* metadata without filename and documentId
Unsourced(metadata) ==
  [k \in DOMAIN metadata \ {"filename", "documentId"} |-> metadata[k]]

\* index answers whose matches have no id, as the default of the
\* TrademarkSearchResult constructor provides for, with and without a source
\* document
UnidentifiedIndexes ==
  UNION { { [i \in 1..n |-> [metadata |-> f[i]]]
              : f \in [1..n -> MetadataPool
                                 \cup {Unsourced(m) : m \in MetadataPool}] }
            : n \in 0..MaxCorpus }

InitUnidentified ==
  /\ thresholds = DefaultThresholds
  /\ adminResponse = NoResponse
  /\ index \in UnidentifiedIndexes
  /\ modelDim = FallbackDim
  /\ IdleCall
  /\ prev = NoCall
  /\ dedupInput = <<>>
  /\ dedupOutput = NotReturned
  /\ ToolsIdle

SpecUnidentified == InitUnidentified /\ [][Next]_vars

----------------------------------------------------------------------------
(* The threshold admin surface alone *)

InitConfig ==
  /\ thresholds = DefaultThresholds
  /\ adminResponse = NoResponse
  /\ index = <<>>
  /\ modelDim = FallbackDim
  /\ IdleCall
  /\ prev = NoCall
  /\ dedupInput = <<>>
  /\ dedupOutput = NotReturned
  /\ ToolsIdle

NextConfig ==
  \/ \E body \in ThresholdBodies : updateThresholds(body)
  \/ getConfiguration

SpecConfig == InitConfig /\ [][NextConfig]_vars

----------------------------------------------------------------------------
(* Repeated analyses of one request, the thresholds left alone *)

\* a further call of analyzeSimilarity repeats the request of the remembered
\* call
AnalyzeAgain(t, opts) ==
  /\ prev.called => (t = prev.target /\ opts = prev.options)
  /\ AnalyzeStart(t, opts)

\* the caller has the response; when no embedding call of the call failed
\* the request and its response are remembered in prev
ReturnRemember ==
  /\ pc \in {"done", "failed"}
  /\ prev' = IF failedCalls = {}
             THEN [called |-> TRUE, target |-> target, options |-> options,
                   done |-> (pc = "done"), response |-> response]
             ELSE prev
  /\ pc' = "idle"
  /\ target' = <<>>
  /\ options' = [dateRange |-> Null]
  /\ allTrademarks' = <<>>
  /\ textResults' = <<>>
  /\ targetEmbedding' = NoVector
  /\ idx' = 0
  /\ descResults' = <<>>
  /\ phoneticResults' = <<>>
  /\ combinedResults' = <<>>
  /\ response' = Null
  /\ failedCalls' = {}
  /\ UNCHANGED <<configVars, worldVars, docVars>>

NextDet ==
  \/ \E t \in Targets, opts \in OptionsSet : AnalyzeAgain(t, opts)
  \/ \E outcome \in EmbeddingOutcomes :
       \E matches \in QueryOrders(outcome) : SearchDone(outcome, matches)
  \/ SearchFail
  \/ \E outcome \in EmbeddingOutcomes : TargetEmbedded(outcome)
  \/ \E outcome \in EmbeddingOutcomes : DescriptionEmbedded(outcome)
  \/ ReturnRemember

SpecDet == Init /\ [][NextDet]_vars

----------------------------------------------------------------------------
(* Deduplication of the records parsed from the pages of a document *)

\* the records parsePageChunk may give for the pages of a document: two
\* application numbers, two applicant names
ParsedRecords ==
  { TrademarkData([nomorPermohonan |-> <<n>>, namaPemohon |-> <<a>>,
                   namaReferensiLabelMerek |-> <<"m">>,
                   kelasBarangJasa |-> <<"5">>])
      : n \in {"1", "2"}, a \in {"p", "q"} }

\* the lists parseTrademarkDataEnhanced hands to deduplicateTrademarks: not
\* empty, every record valid
DedupInputs ==
  UNION { [1..n -> {tm \in ParsedRecords : isValidTrademark(tm)}]
            : n \in 1..MaxDedup }

InitDedup ==
  /\ thresholds = DefaultThresholds
  /\ adminResponse = NoResponse
  /\ index = <<>>
  /\ modelDim = FallbackDim
  /\ IdleCall
  /\ prev = NoCall
  /\ dedupInput \in DedupInputs
  /\ dedupOutput = NotReturned
  /\ ToolsIdle

Deduplicate ==
  /\ ~dedupOutput.returned
  /\ dedupOutput' = [returned |-> TRUE,
                     value    |-> deduplicateTrademarks(dedupInput)]
  /\ UNCHANGED <<engineVars, dedupInput, toolVars>>

NextDedup == Deduplicate

SpecDedup == InitDedup /\ [][NextDedup]_vars

----------------------------------------------------------------------------
(* parseTrademarkDataEnhanced *)

Match(groups) == [groups |-> groups]

\* matches of the application number pattern in a page, with the matches of
\* the other patterns of extractFieldsFromContext around them: a complete
\* record and a record whose mark name is cleaned to nothing
AnchorPool ==
  [complete |->
     [groups  |-> <<<<"J", "1">>>>,
      context |-> [applicantName |-> Match(<<<<"p">>>>),
                   trademarkName |-> Match(<<<<"m", "k">>>>),
                   goodsClass    |-> Match(<<<<"5">>>>)]],
   unnamed |->
     [groups  |-> <<<<"J", "2">>>>,
      context |-> [trademarkName |-> Match(<<<<" ", ":">>>>),
                   goodsClass    |-> Match(<<<<"5">>>>)]]]

\* the page chunks of a document; null stands for an entry that is no object
PagePool ==
  { [hasTrademarkData |-> TRUE, pageNumber |-> 1,
     content |-> <<AnchorPool.complete, AnchorPool.unnamed>>],
    [hasTrademarkData |-> TRUE, pageNumber |-> 2,
     content |-> <<AnchorPool.unnamed>>],
    [hasTrademarkData |-> FALSE, pageNumber |-> 3,
     content |-> <<AnchorPool.complete>>],
    [hasTrademarkData |-> TRUE, pageNumber |-> 4],
    Null }

\* the matches of a field's patterns when only the i-th pattern matches
OnlyPattern(field, i, groups) ==
  [k \in 1..PatternCount(field) |-> IF k = i THEN Match(groups) ELSE Null]

\* sections of a full text: a complete record, one whose application number
\* is blank, one whose mark name is cleaned to nothing
SectionPool ==
  { [nomorPermohonan         |-> OnlyPattern("nomorPermohonan", 1, <<<<"1">>>>),
     namaReferensiLabelMerek |->
       OnlyPattern("namaReferensiLabelMerek", 2, <<<<"m", " ", " ", "k">>>>),
     kelasBarangJasa         |-> OnlyPattern("kelasBarangJasa", 5, <<<<"5">>>>)],
    [nomorPermohonan         |-> OnlyPattern("nomorPermohonan", 3, <<<<" ">>>>),
     namaReferensiLabelMerek |->
       OnlyPattern("namaReferensiLabelMerek", 1, <<<<"m">>>>),
     kelasBarangJasa         |-> OnlyPattern("kelasBarangJasa", 1, <<<<"5">>>>)],
    [nomorPermohonan         |-> OnlyPattern("nomorPermohonan", 1, <<<<"2">>>>),
     namaReferensiLabelMerek |->
       OnlyPattern("namaReferensiLabelMerek", 2, <<<<":">>>>),
     kelasBarangJasa         |-> OnlyPattern("kelasBarangJasa", 1, <<<<"5">>>>)] }

\* the pageChunks argument: null, or an array of page chunks
PageChunkLists ==
  {Null} \cup
  UNION { { [chunks |-> f] : f \in [1..n -> PagePool] } : n \in 0..MaxPages }

\* the fullText argument: null, or a text with its sections
FullTexts ==
  {Null} \cup
  UNION { { [sections |-> f] : f \in [1..n -> SectionPool] }
            : n \in 0..MaxSections }

\* the test trademarks.length === 0 moved to fewer than two records
NeedsFallbackBelowTwo(trademarks) == Len(trademarks) < 2

\* trademarks.length === 0
NeedsFallback(trademarks) == Len(trademarks) = 0

\* the lines of the try block up to the test of trademarks.length
PagePass ==
  /\ parser.pc = "start"
  /\ IF IsNull(parser.pageChunks)
        \/ \E i \in DOMAIN parser.pageChunks.chunks :
             IsNull(parser.pageChunks.chunks[i])
     THEN parser' = [parser EXCEPT !.pc = "catch"]
     ELSE LET trademarkPages ==
                SelectSeq(parser.pageChunks.chunks,
                          LAMBDA chunk : chunk.hasTrademarkData)
              pageResults ==
                [i \in DOMAIN trademarkPages |-> parsePageChunk(trademarkPages[i])]
              flat[i \in 0..Len(pageResults)] ==
                IF i = 0 THEN <<>> ELSE flat[i - 1] \o pageResults[i]
              trademarks ==
                SelectSeq(flat[Len(pageResults)], isValidTrademark)
          IN  parser' = [parser EXCEPT
                           !.trademarks = trademarks,
                           !.pc = IF NeedsFallback(trademarks)
                                  THEN "fallback" ELSE "dedup"]
  /\ UNCHANGED <<engineVars, dedupVars, notParser>>

\* the call returns extractTrademarkData(fullText)
ReturnCoarse(p) ==
  [p EXCEPT !.coarseRuns = @ + 1,
            !.result = [returned |-> TRUE,
                        value    |-> extractTrademarkData(p.fullText)],
            !.pc = "returned"]

\* no valid record came from the pages
FallbackToFullText ==
  /\ parser.pc = "fallback"
  /\ parser' = ReturnCoarse(parser)
  /\ UNCHANGED <<engineVars, dedupVars, notParser>>

\* the catch block of parseTrademarkDataEnhanced
CatchToFullText ==
  /\ parser.pc = "catch"
  /\ parser' = ReturnCoarse(parser)
  /\ UNCHANGED <<engineVars, dedupVars, notParser>>

DedupPages ==
  /\ parser.pc = "dedup"
  /\ parser' = [parser EXCEPT
                  !.result = [returned |-> TRUE,
                              value    |-> deduplicateTrademarks(parser.trademarks)],
                  !.pc = "returned"]
  /\ UNCHANGED <<engineVars, dedupVars, notParser>>

InitParse ==
  /\ thresholds = DefaultThresholds
  /\ adminResponse = NoResponse
  /\ index = <<>>
  /\ modelDim = FallbackDim
  /\ IdleCall
  /\ prev = NoCall
  /\ dedupInput = <<>>
  /\ dedupOutput = NotReturned
  /\ FlowsIdle
  /\ \E chunks \in PageChunkLists, text \in FullTexts :
       parser = [pc |-> "start", pageChunks |-> chunks, fullText |-> text,
                 trademarks |-> <<>>, coarseRuns |-> 0, result |-> NotReturned]
  /\ strings = NoStrings
  /\ report = NoReport
  /\ chunker = NoChunks
  /\ fields = NoFields

NextParse ==
  \/ PagePass
  \/ FallbackToFullText
  \/ CatchToFullText
  \/ DedupPages

SpecParse == InitParse /\ [][NextParse]_vars

----------------------------------------------------------------------------
(* The lexical measures on pairs of normalized strings *)

\* all strings over two letters up to MaxLen, and a few longer words
NormalizedStrings ==
  UNION { [1..n -> {"a", "b"}] : n \in 0..MaxLen }
  \cup { <<"a", "b", "c">>, <<"a", "b", "d">>,
         <<"m", "a", "r", "t", "h", "a">>, <<"m", "a", "r", "h", "t", "a">> }

\* the measures of one argument order
Measures(str1, str2) ==
  [scores     |-> LexicalScores(str1, str2),
   jaro       |-> jaroSimilarity(str1, str2),
   distance   |-> levenshteinDistance(str1, str2),
   similarity |-> calculateLevenshteinSimilarity(str1, str2)]

Measure ==
  /\ strings.pc = "start"
  /\ strings' = [strings EXCEPT !.pc = "done",
                                !.ab = Measures(strings.a, strings.b),
                                !.ba = Measures(strings.b, strings.a)]
  /\ UNCHANGED <<engineVars, dedupVars, notStrings>>

InitStrings ==
  /\ thresholds = DefaultThresholds
  /\ adminResponse = NoResponse
  /\ index = <<>>
  /\ modelDim = FallbackDim
  /\ IdleCall
  /\ prev = NoCall
  /\ dedupInput = <<>>
  /\ dedupOutput = NotReturned
  /\ FlowsIdle
  /\ parser = NoParse
  /\ \E a \in NormalizedStrings, b \in NormalizedStrings :
       strings = [pc |-> "start", a |-> a, b |-> b, ab |-> Null, ba |-> Null]
  /\ report = NoReport
  /\ chunker = NoChunks
  /\ fields = NoFields

NextStrings == Measure

SpecStrings == InitStrings /\ [][NextStrings]_vars

----------------------------------------------------------------------------
(* generateSimilarityReport, one step per await *)

\* the topK the report passes to analyzeSimilarity
ReportTopK == 10

\* the number of corpus records analysed when the request names no target
CorpusTargetLimit == 50

\* the default of options.maxAnalyze
DefaultMaxAnalyze == 50

ReportPeriods ==
  { [start |-> <<"1", "/", "1">>, end |-> <<"1", "/", "1">>],
    [start |-> <<"1", "/", "1">>, end |-> <<"1", "/", "2">>] }

\* the targets of a request body: namaMerek and nomorPermohonan are required
RequestTargets ==
  { [namaMerek |-> <<"a", "b">>, nomorPermohonan |-> <<"1">>],
    [namaMerek |-> <<"a", "x">>, nomorPermohonan |-> <<"2">>] }

ReportRequests ==
  { [dateRange |-> period, targetTrademarks |-> list, options |-> opts]
      : period \in ReportPeriods,
        list \in UNION { [1..n -> RequestTargets] : n \in 0..MaxTargets },
        opts \in { [maxAnalyze |-> 1], [maxAnalyze |-> DefaultMaxAnalyze] } }

\* the records getAllTrademarks may return for the period: none, or one or
\* two TrademarkSearchResult
ReportCorpora ==
  { <<>>,
    parseSearchResults(<<[id |-> VectorId(1),
                          metadata |-> [text |-> <<"a", "b">>,
                                        documentId |-> <<"d">>]]>>),
    parseSearchResults(<<[id |-> VectorId(1),
                          metadata |-> [text |-> <<"a", "b">>,
                                        documentId |-> <<"d">>]],
                         [id |-> VectorId(2),
                          metadata |-> [text |-> <<"a", "x">>,
                                        documentId |-> <<"d">>]]>>) }

Found(id, score) == [trademark |-> [id |-> id], overallScore |-> score]

\* what the await of analyzeSimilarity may give for a target with a name: an
\* error, or a result whose list is ordered by score
AnalysisOutcomes ==
  { Error("index query failed") } \cup
  { [similarTrademarks |-> list]
      : list \in { <<>>,
                   <<Found(VectorId(1), R(9, 10)), Found(VectorId(2), R(1, 2))>>,
                   <<Found(VectorId(1), R(8, 10))>>,
                   <<Found(VectorId(1), R(3, 4))>>,
                   <<Found(VectorId(1), R(7, 10))>>,
                   <<Found(VectorId(2), R(1, 2))>> } }

\* analyzeSimilarity(undefined, ...): normalizeText reads a property of
\* undefined
TypeError == Error("Cannot read properties of undefined")

\* the outcomes of analyzeSimilarity for a first argument
OutcomesFor(name) ==
  IF name = Undefined THEN {Error("index query failed"), TypeError}
  ELSE AnalysisOutcomes

\* the summary counter for a highest score, with strict comparisons
BucketStrict(highestScore) ==
  IF RGt(highestScore, R(8, 10)) THEN "highSimilarity"
  ELSE IF RGt(highestScore, R(7, 10)) THEN "mediumSimilarity"
  ELSE "lowSimilarity"

\* the summary counter a highest score increments
Bucket(highestScore) ==
  IF RGe(highestScore, R(8, 10)) THEN "highSimilarity"
  ELSE IF RGe(highestScore, R(7, 10)) THEN "mediumSimilarity"
  ELSE "lowSimilarity"

EmptyReport(dateRange) ==
  [period             |-> dateRange,
   totalAnalyzed      |-> 0,
   similarityFindings |-> <<>>,
   summary            |-> [highSimilarity |-> 0, mediumSimilarity |-> 0,
                           lowSimilarity |-> 0]]

\* the controller answers the report
ReportOk(r) == [status |-> 200, success |-> TRUE, data |-> r]

\* the catch blocks of the service and of the controller
ReportFailed(error) ==
  [status |-> 500, error |-> "Report generation failed", message |-> error.error]

\* the controller cuts the targets to maxAnalyze and calls the service, which
\* runs up to its first await
ReportBegin ==
  /\ report.pc = "start"
  /\ LET targetTrademarks ==
           Slice(report.request.targetTrademarks,
                 report.request.options.maxAnalyze)
         dateRange == report.request.dateRange
     IN  IF Len(targetTrademarks) = 0
         THEN report' = [report EXCEPT !.pc = "corpus",
                                       !.report = EmptyReport(dateRange)]
         ELSE report' = [report EXCEPT
                           !.pc = "analyze",
                           !.targets = targetTrademarks,
                           !.report = [EmptyReport(dateRange) EXCEPT
                                         !.totalAnalyzed = Len(targetTrademarks)]]
  /\ UNCHANGED <<engineVars, dedupVars, notReport>>

\* getAllTrademarks answers
ReportCorpusLoaded(corpus) ==
  /\ report.pc = "corpus"
  /\ LET targetTrademarks == Slice(corpus, CorpusTargetLimit)
     IN  report' = [report EXCEPT
                      !.pc = IF Len(targetTrademarks) = 0 THEN "returned"
                             ELSE "analyze",
                      !.targets = targetTrademarks,
                      !.report.totalAnalyzed = Len(targetTrademarks),
                      !.response =
                         IF Len(targetTrademarks) = 0
                         THEN ReportOk([report.report EXCEPT !.totalAnalyzed = 0])
                         ELSE @]
  /\ UNCHANGED <<engineVars, dedupVars, notReport>>

\* getAllTrademarks throws
ReportCorpusFailed ==
  /\ report.pc = "corpus"
  /\ report' = [report EXCEPT
                  !.pc = "failed",
                  !.response = ReportFailed(Error("index query failed"))]
  /\ UNCHANGED <<engineVars, dedupVars, notReport>>

\* the await of analyzeSimilarity for the target at position i ends
ReportAnalyzed(outcome) ==
  /\ report.pc = "analyze"
  /\ LET trademark == report.targets[report.i]
         call == [trademark |-> Get(trademark, "namaMerek"),
                  options   |-> [topK |-> ReportTopK,
                                 dateRange |-> report.report.period]]
     IN  /\ outcome \in OutcomesFor(call.trademark)
         /\ IF IsError(outcome)
            THEN report' = [report EXCEPT
                              !.pc = "failed",
                              !.calls = Append(@, call),
                              !.results = Append(@, outcome),
                              !.response = ReportFailed(outcome)]
            ELSE LET similar == outcome.similarTrademarks
                     highestScore ==
                       IF similar = <<>> THEN Zero
                       ELSE similar[1].overallScore
                     updated ==
                       IF Len(similar) > 0
                       THEN [report.report EXCEPT
                               !.similarityFindings =
                                  Append(@, [targetTrademark   |-> trademark,
                                             similarTrademarks |-> similar,
                                             highestSimilarity |-> highestScore]),
                               !.summary[Bucket(highestScore)] = @ + 1]
                       ELSE report.report
                     last == report.i = Len(report.targets)
                 IN  report' = [report EXCEPT
                                  !.pc = IF last THEN "returned" ELSE "analyze",
                                  !.i = @ + 1,
                                  !.calls = Append(@, call),
                                  !.results = Append(@, outcome),
                                  !.report = updated,
                                  !.response = IF last THEN ReportOk(updated)
                                               ELSE @]
  /\ UNCHANGED <<engineVars, dedupVars, notReport>>

InitReport ==
  /\ thresholds = DefaultThresholds
  /\ adminResponse = NoResponse
  /\ index = <<>>
  /\ modelDim = FallbackDim
  /\ IdleCall
  /\ prev = NoCall
  /\ dedupInput = <<>>
  /\ dedupOutput = NotReturned
  /\ FlowsIdle
  /\ parser = NoParse
  /\ strings = NoStrings
  /\ \E request \in ReportRequests :
       report = [pc |-> "start", request |-> request, targets |-> <<>>,
                 i |-> 1, calls |-> <<>>, results |-> <<>>,
                 report |-> Null, response |-> Null]
  /\ chunker = NoChunks
  /\ fields = NoFields

NextReport ==
  \/ ReportBegin
  \/ \E corpus \in ReportCorpora : ReportCorpusLoaded(corpus)
  \/ ReportCorpusFailed
  \/ \E outcome \in AnalysisOutcomes \cup {TypeError} : ReportAnalyzed(outcome)

SpecReport == InitReport /\ [][NextReport]_vars

----------------------------------------------------------------------------
(* splitIntoChunks, one step per iteration of the window loop *)

\* this.chunkSize
chunkSize == 2000

\* this.chunkOverlap
chunkOverlap == 400

\* A text, where only the classes of its characters matter, is the sequence
\* of its runs: each run a class (digit, letter or space) and a length, and
\* neighbouring runs of different classes.
Run(kind, len) == [kind |-> kind, len |-> len]

Letters(n) == IF n = 0 THEN <<>> ELSE <<Run("letter", n)>>

RECURSIVE RunsLength(_)
RunsLength(runs) ==
  IF runs = <<>> THEN 0 ELSE Head(runs).len + RunsLength(Tail(runs))

\* runs + run
AppendRun(runs, run) ==
  IF run.len = 0 THEN runs
  ELSE IF runs # <<>> /\ runs[Len(runs)].kind = run.kind
       THEN [runs EXCEPT ![Len(runs)].len = @ + run.len]
       ELSE Append(runs, run)

RECURSIVE Concat(_, _)
Concat(a, b) == IF b = <<>> THEN a ELSE Concat(AppendRun(a, Head(b)), Tail(b))

\* text.substring(from, to)
RECURSIVE RunsSlice(_, _, _)
RunsSlice(runs, from, to) ==
  IF runs = <<>> \/ to <= 0 THEN <<>>
  ELSE LET h == Head(runs)
           a == Max2(from, 0)
           b == Min2(to, h.len)
       IN  (IF b > a THEN <<Run(h.kind, b - a)>> ELSE <<>>)
             \o RunsSlice(Tail(runs), from - h.len, to - h.len)

\* text.trim()
RECURSIVE TrimRuns(_)
TrimRuns(runs) ==
  IF runs = <<>> THEN <<>>
  ELSE IF Head(runs).kind = "space" THEN TrimRuns(Tail(runs))
  ELSE IF runs[Len(runs)].kind = "space"
       THEN TrimRuns(SubSeq(runs, 1, Len(runs) - 1))
  ELSE runs

\* replace(/(\d)(\D)/g, '$1 $2') and replace(/(\D)(\d)/g, '$1 $2'): a space
\* goes between a digit and every neighbour that is not a digit
RECURSIVE InsertSpaces(_, _, _)
InsertSpaces(runs, i, acc) ==
  IF i > Len(runs) THEN acc
  ELSE LET border == /\ i > 1
                     /\ (runs[i - 1].kind = "digit") # (runs[i].kind = "digit")
           spaced == IF border THEN AppendRun(acc, Run("space", 1)) ELSE acc
       IN  InsertSpaces(runs, i + 1, AppendRun(spaced, runs[i]))

\* /\d{3}[A-Za-z]/ matches where the run at i ends: three digits and a letter
\* right after them
IsFieldCode(runs, i) ==
  /\ runs[i].kind = "digit"
  /\ runs[i].len >= 3
  /\ i < Len(runs)
  /\ runs[i + 1].kind = "letter"

\* replace(/(\d{3})([A-Za-z])/g, '$1 $2')
RECURSIVE SeparateCodes(_, _, _)
SeparateCodes(runs, i, acc) ==
  IF i > Len(runs) THEN acc
  ELSE LET added == AppendRun(acc, runs[i])
       IN  SeparateCodes(runs, i + 1,
             IF IsFieldCode(runs, i) THEN AppendRun(added, Run("space", 1))
             ELSE added)

\* replace(/\s+/g, ' ')
CollapseSpaces(runs) ==
  [i \in DOMAIN runs |->
     IF runs[i].kind = "space" THEN Run("space", 1) ELSE runs[i]]

\* cleanText, as far as it moves digits, letters and white space
cleanText(text) == TrimRuns(CollapseSpaces(SeparateCodes(text, 1, <<>>)))

preprocessTrademarkText(text) == cleanText(InsertSpaces(text, 1, <<>>))

\* the shortest chunk createSemanticChunks keeps is longer than this
MinChunk == 100

\* the shortest fragment splitLargeTrademarkEntry keeps is longer than this
MinFragment == 50

\* the characters before an application number that go into its chunk
ContextBefore == 200

\* text.split(/(?=\d{3}[A-Za-z])/): a section begins with the three digits in
\* front of a letter, except at the start of the text
RECURSIVE SplitAtCodes(_, _, _, _)
SplitAtCodes(runs, i, acc, out) ==
  IF i > Len(runs) THEN (IF acc = <<>> THEN out ELSE Append(out, acc))
  ELSE IF IsFieldCode(runs, i)
       THEN LET before == AppendRun(acc, Run("digit", runs[i].len - 3))
            IN  SplitAtCodes(runs, i + 1, <<Run("digit", 3)>>,
                             IF before = <<>> THEN out ELSE Append(out, before))
       ELSE SplitAtCodes(runs, i + 1, AppendRun(acc, runs[i]), out)

\* the loop of splitLargeTrademarkEntry over the sections
RECURSIVE EntryLoop(_, _, _, _)
EntryLoop(sections, i, currentChunk, chunks) ==
  IF i > Len(sections)
  THEN IF TrimRuns(currentChunk) # <<>>
       THEN Append(chunks, TrimRuns(currentChunk)) ELSE chunks
  ELSE LET section == sections[i]
       IN  IF /\ RunsLength(currentChunk) + RunsLength(section) > chunkSize
              /\ currentChunk # <<>>
           THEN EntryLoop(sections, i + 1, section,
                          Append(chunks, TrimRuns(currentChunk)))
           ELSE EntryLoop(sections, i + 1,
                  IF currentChunk # <<>>
                  THEN Concat(AppendRun(currentChunk, Run("space", 1)), section)
                  ELSE section,
                  chunks)

\* chunks.filter(chunk => chunk.length > 50)
KeepFragments(chunks) ==
  SelectSeq(chunks, LAMBDA chunk : RunsLength(chunk) > MinFragment)

splitLargeTrademarkEntry(text) ==
  KeepFragments(EntryLoop(SplitAtCodes(text, 1, <<>>, <<>>), 1, <<>>, <<>>))

\* /(?:210|220)\s+(\d{4}\d{6,})/ matches where the run at i ends: the three
\* digits 210 or 220, white space and ten digits or more
IsApplicationNumber(runs, i) ==
  /\ runs[i].kind = "digit"
  /\ runs[i].len >= 3
  /\ i + 2 <= Len(runs)
  /\ runs[i + 1].kind = "space"
  /\ runs[i + 2].kind = "digit"
  /\ runs[i + 2].len >= 10

\* the positions match.index of the application numbers, in text order
RECURSIVE ApplicationNumbers(_, _, _, _)
ApplicationNumbers(runs, i, offset, matches) ==
  IF i > Len(runs) THEN matches
  ELSE ApplicationNumbers(runs, i + 1, offset + runs[i].len,
         IF IsApplicationNumber(runs, i)
         THEN Append(matches, offset + runs[i].len - 3) ELSE matches)

\* the window of the i-th application number, trimmed
chunkText(text, matches, i) ==
  LET startPos == Max2(0, matches[i] - ContextBefore)
      endPos   == IF i < Len(matches) THEN matches[i + 1] ELSE RunsLength(text)
  IN  TrimRuns(RunsSlice(text, startPos, endPos))

\* one iteration of the loop of createSemanticChunks over the matches
SemanticStep(text, matches, i, chunks) ==
  LET window == chunkText(text, matches, i)
  IN  IF RunsLength(window) > chunkSize * 2
      THEN chunks \o splitLargeTrademarkEntry(window)
      ELSE IF RunsLength(window) > MinChunk THEN Append(chunks, window)
      ELSE chunks

RECURSIVE SemanticLoop(_, _, _, _)
SemanticLoop(text, matches, i, chunks) ==
  IF i > Len(matches) THEN chunks
  ELSE SemanticLoop(text, matches, i + 1, SemanticStep(text, matches, i, chunks))

createSemanticChunks(text) ==
  SemanticLoop(text.runs, ApplicationNumbers(text.runs, 1, 0, <<>>), 1, <<>>)

\* the application number in front of an entry, and a short entry
ApplicationNumber ==
  <<Run("digit", 3), Run("space", 1), Run("digit", 10), Run("space", 1)>>

Entry(body) == Concat(ApplicationNumber, body)

ShortBody == Letters(3 * chunkOverlap)

\* the characters the loop looks for; every other character is a letter
MarkChars == {".", "!", "?", " "}

\* the positions, counted from 0, where a text may carry a mark: around every
\* multiple of half the chunk size
MarkPositions ==
  { w * (chunkSize \div 2) + d : w \in 1..(2 * MaxWindows), d \in {0 - 1, 0, 1} }

TextLengths ==
  { w * (chunkSize \div 2) + d : w \in 0..(2 * MaxWindows + 1), d \in 0..2 }

\* the placements of at most two marks
MarkPlacements ==
  UNION { [S -> MarkChars]
            : S \in { T \in SUBSET MarkPositions : Cardinality(T) <= 2 } }

\* a text is its length, the marks in it, and its runs of digits and
\* letters: only the last text below holds a digit, an application number
ChunkTexts ==
  UNION { { [length |-> n, marks |-> marks, runs |-> Letters(n)]
              : marks \in { m \in MarkPlacements : \A p \in DOMAIN m : p < n } }
            : n \in TextLengths }
  \cup { [length |-> RunsLength(Entry(ShortBody)), marks |-> <<>>,
           runs |-> Entry(ShortBody)] }

SetMax(S) == CHOOSE x \in S : \A y \in S : y <= x

\* text.lastIndexOf(ch, fromIndex)
lastIndexOf(text, ch, fromIndex) ==
  LET found == { p \in DOMAIN text.marks :
                   text.marks[p] = ch /\ p <= fromIndex }
  IN  IF found = {} THEN 0 - 1 ELSE SetMax(found)

IsSpaceAt(text, p) == p \in DOMAIN text.marks /\ text.marks[p] = " "

\* text.slice(start, end).trim(), as the positions it runs over
RECURSIVE TrimSlice(_, _, _)
TrimSlice(text, start, end) ==
  IF start >= end THEN [start |-> start, end |-> start]
  ELSE IF IsSpaceAt(text, start) THEN TrimSlice(text, start + 1, end)
  ELSE IF IsSpaceAt(text, end - 1) THEN TrimSlice(text, start, end - 1)
  ELSE [start |-> start, end |-> end]

ChunkLength(chunk) == chunk.end - chunk.start

\* the cut is accepted wherever it lies after the window start
PastStart(x, start) == x > start

\* x > start + this.chunkSize * 0.5
PastMidpoint(x, start) == 2 * x > 2 * start + chunkSize

\* the end of the window that begins at start
WindowEnd(text, start) ==
  LET end == start + chunkSize
      sentenceEnd == lastIndexOf(text, ".", end)
      exclamationEnd == lastIndexOf(text, "!", end)
      questionEnd == lastIndexOf(text, "?", end)
      maxSentenceEnd == Max2(Max2(sentenceEnd, exclamationEnd), questionEnd)
      spaceIndex == lastIndexOf(text, " ", end)
  IN  IF end < text.length
      THEN IF PastMidpoint(maxSentenceEnd, start) THEN maxSentenceEnd + 1
           ELSE IF PastMidpoint(spaceIndex, start) THEN spaceIndex
           ELSE end
      ELSE end

\* the start of the next window
NextStart(end) == Max2(end - chunkOverlap, 0)

\* the guards before the loop
ChunkBegin ==
  /\ chunker.pc = "start"
  /\ LET text == chunker.text
     IN  IF IsNull(text) \/ text.length = 0
         THEN chunker' = [chunker EXCEPT !.pc = "returned", !.result = <<>>]
         ELSE LET semanticChunks == createSemanticChunks(text)
              IN  IF Len(semanticChunks) > 0
                  THEN chunker' = [chunker EXCEPT !.pc = "returned",
                                                  !.result = semanticChunks]
                  ELSE chunker' = [chunker EXCEPT !.pc = "loop"]
  /\ UNCHANGED <<engineVars, dedupVars, notChunker>>

\* one iteration of while (start < text.length)
ChunkWindow ==
  /\ chunker.pc = "loop"
  /\ LET text == chunker.text
         start == chunker.start
         end == WindowEnd(text, start)
         chunk == TrimSlice(text, start, Min2(end, text.length))
         chunks == IF ChunkLength(chunk) > 0 THEN Append(chunker.chunks, chunk)
                   ELSE chunker.chunks
         next == NextStart(end)
     IN  chunker' = [chunker EXCEPT
                       !.pc = IF next < text.length THEN "loop" ELSE "returned",
                       !.start = next,
                       !.chunks = chunks,
                       !.windows = Append(@, [start |-> start, end |-> end]),
                       !.result = IF next < text.length THEN @ ELSE chunks]
  /\ UNCHANGED <<engineVars, dedupVars, notChunker>>

InitChunks ==
  /\ thresholds = DefaultThresholds
  /\ adminResponse = NoResponse
  /\ index = <<>>
  /\ modelDim = FallbackDim
  /\ IdleCall
  /\ prev = NoCall
  /\ dedupInput = <<>>
  /\ dedupOutput = NotReturned
  /\ FlowsIdle
  /\ parser = NoParse
  /\ strings = NoStrings
  /\ report = NoReport
  /\ \E text \in ChunkTexts \cup {Null} :
       chunker = [pc |-> "start", text |-> text, start |-> 0, chunks |-> <<>>,
                  windows |-> <<>>, result |-> <<>>]
  /\ fields = NoFields

NextChunks ==
  \/ ChunkBegin
  \/ ChunkWindow

SpecChunks == InitChunks /\ [][NextChunks]_vars

\* the loop is scheduled until it returns
FairSpecChunks == SpecChunks /\ WF_vars(NextChunks)

----------------------------------------------------------------------------
(* createSemanticChunks on a document text, one step per application number *)

\* a three-digit field code
Code == Run("digit", 3)

\* the bodies of the entries of a document: short ones, one too short to be
\* kept, and long ones with field codes right in front of letters, with field
\* codes between spaces, with a short field, and without field codes
EntryBodies ==
  { ShortBody,
    Letters(MinChunk \div 4),
    <<Run("letter", 1500), Code, Run("letter", 1500), Code, Run("letter", 1500)>>,
    <<Run("letter", 1500), Run("space", 1), Code, Run("space", 1),
      Run("letter", 3000)>>,
    <<Run("letter", 1990), Code, Run("letter", 20), Code, Run("letter", 2100)>>,
    Letters(2 * chunkSize + chunkSize \div 4) }

\* the raw text of a document with the given entry bodies
RECURSIVE DocumentText(_)
DocumentText(bodies) ==
  IF bodies = <<>> THEN <<>>
  ELSE Concat(AppendRun(Entry(Head(bodies)), Run("space", 1)),
              DocumentText(Tail(bodies)))

Documents ==
  { DocumentText(bodies)
      : bodies \in UNION { [1..n -> EntryBodies] : n \in 1..MaxEntries } }

\* createSemanticChunks has found the application numbers of the text
Scanned(text, via) ==
  LET matches == ApplicationNumbers(text, 1, 0, <<>>)
  IN  [pc |-> IF Len(matches) = 0 THEN "returned" ELSE "loop",
       via |-> via, raw |-> splitter.text, text |-> text, matches |-> matches,
       i |-> 1, chunks |-> <<>>]

\* processDocument preprocesses the text and hands it to splitIntoChunks
SplitProcessed ==
  /\ splitter.pc = "start"
  /\ splitter' = Scanned(preprocessTrademarkText(splitter.text),
                         "processDocument")
  /\ UNCHANGED <<engineVars, dedupVars, parser, strings, report, chunker,
                 fields, notSplitter>>

\* splitIntoChunks is called on a text as it is
SplitRaw ==
  /\ splitter.pc = "start"
  /\ splitter' = Scanned(splitter.text, "splitIntoChunks")
  /\ UNCHANGED <<engineVars, dedupVars, parser, strings, report, chunker,
                 fields, notSplitter>>

\* one iteration of the loop over the matches
SplitWindow ==
  /\ splitter.pc = "loop"
  /\ LET chunks == SemanticStep(splitter.text, splitter.matches, splitter.i,
                                splitter.chunks)
     IN  splitter' = [splitter EXCEPT
                        !.pc = IF splitter.i = Len(splitter.matches)
                               THEN "returned" ELSE "loop",
                        !.i = @ + 1,
                        !.chunks = chunks]
  /\ UNCHANGED <<engineVars, dedupVars, parser, strings, report, chunker,
                 fields, notSplitter>>

InitSplit ==
  /\ thresholds = DefaultThresholds
  /\ adminResponse = NoResponse
  /\ index = <<>>
  /\ modelDim = FallbackDim
  /\ IdleCall
  /\ prev = NoCall
  /\ dedupInput = <<>>
  /\ dedupOutput = NotReturned
  /\ parser = NoParse
  /\ strings = NoStrings
  /\ report = NoReport
  /\ chunker = NoChunks
  /\ fields = NoFields
  /\ \E text \in Documents : splitter = [pc |-> "start", text |-> text]
  /\ upload = NoUpload
  /\ store = NoStore

NextSplit ==
  \/ SplitProcessed
  \/ SplitRaw
  \/ SplitWindow

SpecSplit == InitSplit /\ [][NextSplit]_vars

----------------------------------------------------------------------------
(* The field extractors on one field of one text *)

\* the character the i-th pattern of a field captures in the texts below
PatternDigit(i) == <<"1", "2", "3", "4", "5", "6">>[i]

\* the match of the i-th pattern of a field: every group holds the pattern's
\* digit
PatternMatch(field, i) ==
  Match([k \in 1..GroupCount(field, i) |-> <<PatternDigit(i)>>])

\* the texts of a field: every choice of the patterns that match
FieldTexts(field) ==
  { [f \in {field} |->
       [i \in 1..PatternCount(field) |->
          IF i \in S THEN PatternMatch(field, i) ELSE Null]]
      : S \in SUBSET (1..PatternCount(field)) }

\* the value an extractor leaves in the field, undefined when nothing matched
PickedValue(pick, field, Value(_, _)) ==
  IF Matched(pick.match) THEN Value(field, pick.match) ELSE Undefined

\* parseSection reads the field
ParseSectionField ==
  /\ fields.pc = "start"
  /\ LET pick == SectionPick(fields.text, fields.field)
     IN  fields' = [fields EXCEPT
                      !.pc = "parsed",
                      !.section = [pattern |-> pick.pattern,
                                   value |-> PickedValue(pick, fields.field,
                                                         SectionValue)]]
  /\ UNCHANGED <<engineVars, dedupVars, notFields>>

\* extractTrademarkFieldsFromText reads the field of the same text
ExtractField ==
  /\ fields.pc = "parsed"
  /\ LET pick == FieldsPick(fields.text, fields.field)
     IN  fields' = [fields EXCEPT
                      !.pc = "extracted",
                      !.extracted = [pattern |-> pick.pattern,
                                     value |-> PickedValue(pick, fields.field,
                                                           FieldValue)]]
  /\ UNCHANGED <<engineVars, dedupVars, notFields>>

InitFields ==
  /\ thresholds = DefaultThresholds
  /\ adminResponse = NoResponse
  /\ index = <<>>
  /\ modelDim = FallbackDim
  /\ IdleCall
  /\ prev = NoCall
  /\ dedupInput = <<>>
  /\ dedupOutput = NotReturned
  /\ FlowsIdle
  /\ parser = NoParse
  /\ strings = NoStrings
  /\ report = NoReport
  /\ chunker = NoChunks
  /\ \E field \in Range(PatternFields) :
       \E text \in FieldTexts(field) :
         fields = [pc |-> "start", field |-> field, text |-> text,
                   section |-> Null, extracted |-> Null]

NextFields ==
  \/ ParseSectionField
  \/ ExtractField

SpecFields == InitFields /\ [][NextFields]_vars

----------------------------------------------------------------------------
(* The upload flow: uploadDocument, processDocument and ProgressLogger, one *)
(* step per await                                                           *)

\* Math.round of the rational n / d: the nearest integer, a half goes up
MathRound(n, d) == (2 * n + d) \div (2 * d)

\* the controller's and the service's limit on the size of a file
MaxFileSize == 50 * 1024 * 1024

PdfType == "application/pdf"

\* the files a request carries, as the upload middleware hands them over
UploadedFiles ==
  { [mimetype |-> m, size |-> n] :
      m \in {PdfType, "text/plain"}, n \in {1, MaxFileSize, MaxFileSize + 1} }

\* the options uploadDocument passes to startProgress
UploadSteps == [totalSteps |-> 5]

\* activeUploads has no record under a request id
Absent == [status |-> "absent"]

startProgress(opts) ==
  [currentStep |-> 0,
   totalSteps  |-> IF "totalSteps" \in DOMAIN opts
                   THEN opts.totalSteps ELSE 5,
   percentage  |-> 0,
   status      |-> "started"]

nextStep(progress) ==
  IF progress = Absent THEN progress
  ELSE [progress EXCEPT
          !.currentStep = @ + 1,
          !.percentage = MathRound((progress.currentStep + 1) * 100,
                                   progress.totalSteps)]

\* baseProgress + stepProgress is ((currentStep - 1) * 100 + subProgress) /
\* totalSteps
updateSubProgress(progress, subProgress) ==
  IF progress = Absent THEN progress
  ELSE [progress EXCEPT
          !.percentage = MathRound((progress.currentStep - 1) * 100
                                     + subProgress, progress.totalSteps)]

completeProgress(progress) ==
  IF progress = Absent THEN progress
  ELSE [progress EXCEPT !.percentage = 100, !.status = "completed"]

failProgress(progress) ==
  IF progress = Absent THEN progress
  ELSE [progress EXCEPT !.status = "failed"]

\* completeProgress and failProgress set the timer that deletes the record
\* when they found one
CleanUpTimers(progress, requestId) ==
  IF progress = Absent THEN upload.timers ELSE upload.timers \cup {requestId}

\* the sub-progress storeDocumentMetadata reports before the embedding of
\* chunk i of n
chunkProgress(i, n) == MathRound(i * 100, n)

\* no response sent yet, and a response with its HTTP status
NoneYet == [sent |-> FALSE]

Response(status) == [sent |-> TRUE, status |-> status]

\* the record of the request in hand and the upload state with that record
\* replaced
Progress == upload.activeUploads[upload.requestId]

Tracked(progress) ==
  [upload.activeUploads EXCEPT ![upload.requestId] = progress]

Responded(status) ==
  [upload.responses EXCEPT ![upload.requestId] = Response(status)]

\* the server receives an upload request; the handler runs to its response
\* or to processDocument's await of fs.readFile
UploadRequest(file) ==
  /\ upload.pc = "idle"
  /\ upload.requestId < MaxUploads
  /\ LET id == upload.requestId + 1
         received == [upload EXCEPT !.requestId = id, !.files[id] = file]
         validated == nextStep(startProgress(UploadSteps))
     IN  IF IsNull(file)
         THEN upload' = [received EXCEPT !.responses[id] = Response(400)]
         ELSE LET stored == [received EXCEPT !.tempFiles = @ \cup {id}]
              IN  IF file.mimetype # PdfType
                  THEN upload' =
                         [stored EXCEPT
                            !.activeUploads[id] = failProgress(validated),
                            !.timers = @ \cup {id},
                            !.responses[id] = Response(400)]
                  ELSE IF file.size > MaxFileSize
                  THEN upload' =
                         [stored EXCEPT
                            !.activeUploads[id] = validated,
                            !.responses[id] = Response(400)]
                  ELSE upload' =
                         [stored EXCEPT
                            !.activeUploads[id] =
                              updateSubProgress(nextStep(validated), 10),
                            !.pc = "readFile"]
  /\ UNCHANGED <<engineVars, dedupVars, parser, strings, report, chunker,
                 fields, notUpload>>

\* an await of processDocument fails: the catch block awaits fs.unlink
Caught == [upload EXCEPT !.pc = "cleanup"]

\* fs.readFile answers
UploadRead(ok) ==
  /\ upload.pc = "readFile"
  /\ upload' = IF ok THEN [upload EXCEPT !.pc = "pages"] ELSE Caught
  /\ UNCHANGED <<engineVars, dedupVars, parser, strings, report, chunker,
                 fields, notUpload>>

\* splitIntoPageChunks answers; the text is preprocessed and split in n
\* chunks, and parseTrademarkDataEnhanced is awaited
UploadPages(ok, n) ==
  /\ upload.pc = "pages"
  /\ upload' =
       IF ok
       THEN [upload EXCEPT
               !.activeUploads = Tracked(nextStep(nextStep(Progress))),
               !.chunks = n,
               !.pc = "parse"]
       ELSE Caught
  /\ UNCHANGED <<engineVars, dedupVars, parser, strings, report, chunker,
                 fields, notUpload>>

\* parseTrademarkDataEnhanced answers; storeDocumentMetadata starts its
\* embedding loop, or goes to the storage when there is no chunk
UploadParsed(ok) ==
  /\ upload.pc = "parse"
  /\ upload' =
       IF ok
       THEN LET stored == nextStep(Progress)
            IN  IF upload.chunks > 0
                THEN [upload EXCEPT
                        !.activeUploads =
                          Tracked(updateSubProgress(
                                    stored, chunkProgress(1, upload.chunks))),
                        !.i = 1,
                        !.pc = "embed"]
                ELSE [upload EXCEPT
                        !.activeUploads =
                          Tracked(updateSubProgress(stored, 90)),
                        !.pc = "storeChunks"]
       ELSE Caught
  /\ UNCHANGED <<engineVars, dedupVars, parser, strings, report, chunker,
                 fields, notUpload>>

\* generateEmbedding answers for chunk i (it answers a fallback vector when
\* the provider fails)
UploadEmbedded ==
  /\ upload.pc = "embed"
  /\ upload' =
       IF upload.i < upload.chunks
       THEN [upload EXCEPT
               !.activeUploads =
                 Tracked(updateSubProgress(
                           Progress,
                           chunkProgress(upload.i + 1, upload.chunks))),
               !.i = @ + 1]
       ELSE [upload EXCEPT
               !.activeUploads = Tracked(updateSubProgress(Progress, 90)),
               !.pc = "storeChunks"]
  /\ UNCHANGED <<engineVars, dedupVars, parser, strings, report, chunker,
                 fields, notUpload>>

\* storeDocumentChunks answers; processDocument awaits fs.unlink
UploadStored(ok) ==
  /\ upload.pc = "storeChunks"
  /\ upload' = IF ok THEN [upload EXCEPT !.pc = "unlink"] ELSE Caught
  /\ UNCHANGED <<engineVars, dedupVars, parser, strings, report, chunker,
                 fields, notUpload>>

\* the fs.unlink of the successful path answers; uploadDocument completes
\* the progress and responds
UploadUnlinked(ok) ==
  /\ upload.pc = "unlink"
  /\ upload' =
       IF ok
       THEN [upload EXCEPT
               !.unlinked = @ \cup {upload.requestId},
               !.tempFiles = @ \ {upload.requestId},
               !.activeUploads = Tracked(completeProgress(Progress)),
               !.timers = CleanUpTimers(Progress, upload.requestId),
               !.responses = Responded(201),
               !.pc = "idle"]
       ELSE [Caught EXCEPT !.unlinked = @ \cup {upload.requestId}]
  /\ UNCHANGED <<engineVars, dedupVars, parser, strings, report, chunker,
                 fields, notUpload>>

\* the fs.unlink of the catch block answers, its failure is swallowed; the
\* error is thrown again and uploadDocument fails the progress and responds
UploadCleanedUp(ok) ==
  /\ upload.pc = "cleanup"
  /\ upload' =
       [upload EXCEPT
          !.unlinked = @ \cup {upload.requestId},
          !.tempFiles = IF ok THEN @ \ {upload.requestId} ELSE @,
          !.activeUploads = Tracked(failProgress(Progress)),
          !.timers = CleanUpTimers(Progress, upload.requestId),
          !.responses = Responded(500),
          !.pc = "idle"]
  /\ UNCHANGED <<engineVars, dedupVars, parser, strings, report, chunker,
                 fields, notUpload>>

\* the timer set by completeProgress or failProgress fires
UploadTimer(requestId) ==
  /\ requestId \in upload.timers
  /\ upload' = [upload EXCEPT !.timers = @ \ {requestId},
                              !.activeUploads[requestId] = Absent]
  /\ UNCHANGED <<engineVars, dedupVars, parser, strings, report, chunker,
                 fields, notUpload>>

InitUpload ==
  /\ thresholds = DefaultThresholds
  /\ adminResponse = NoResponse
  /\ index = <<>>
  /\ modelDim = FallbackDim
  /\ IdleCall
  /\ prev = NoCall
  /\ dedupInput = <<>>
  /\ dedupOutput = NotReturned
  /\ parser = NoParse
  /\ strings = NoStrings
  /\ report = NoReport
  /\ chunker = NoChunks
  /\ fields = NoFields
  /\ splitter = NoSplit
  /\ upload = [pc            |-> "idle",
               requestId     |-> 0,
               files         |-> [id \in 1..MaxUploads |-> Null],
               chunks        |-> 0,
               i             |-> 0,
               tempFiles     |-> {},
               unlinked      |-> {},
               activeUploads |-> [id \in 1..MaxUploads |-> Absent],
               timers        |-> {},
               responses     |-> [id \in 1..MaxUploads |-> NoneYet]]
  /\ store = NoStore

NextUpload ==
  \/ \E file \in UploadedFiles \cup {Null} : UploadRequest(file)
  \/ \E ok \in BOOLEAN : UploadRead(ok)
  \/ \E ok \in BOOLEAN, n \in 0..MaxWindows : UploadPages(ok, n)
  \/ \E ok \in BOOLEAN : UploadParsed(ok)
  \/ UploadEmbedded
  \/ \E ok \in BOOLEAN : UploadStored(ok)
  \/ \E ok \in BOOLEAN : UploadUnlinked(ok)
  \/ \E ok \in BOOLEAN : UploadCleanedUp(ok)
  \/ \E requestId \in 1..MaxUploads : UploadTimer(requestId)

SpecUpload == InitUpload /\ [][NextUpload]_vars

\* the event loop runs every callback and timer that is due
FairSpecUpload == SpecUpload /\ WF_vars(NextUpload)

----------------------------------------------------------------------------
(* storePageBasedDocument, one step per await on the index or on a timer *)

batchSize == 100

maxRetries == 3

\* the page chunks of a document of n pages; content(k) is the content of
\* page k: a text, white space or the empty string
Pages(n, content(_)) ==
  [k \in 1..n |-> [pageNumber |-> k, content |-> content(k)]]

PageCounts ==
  {0, 1} \cup UNION { {b * batchSize, b * batchSize + 1} : b \in 1..MaxBatches }

\* documents with a text on every page, with a blank first page, with a
\* first batch of empty pages, and without any text
PageDocuments ==
  UNION { { Pages(n, LAMBDA k : <<"a">>),
            Pages(n, LAMBDA k : IF k = 1 THEN <<" ">> ELSE <<"a">>),
            Pages(n, LAMBDA k : IF k <= batchSize THEN <<>> ELSE <<"a">>),
            Pages(n, LAMBDA k : <<>>) } : n \in PageCounts }

\* pageChunks.slice(i, i + batchSize)
Batch(pageChunks, i) ==
  SubSeq(pageChunks, i + 1,
         IF i + batchSize < Len(pageChunks) THEN i + batchSize
         ELSE Len(pageChunks))

\* the vectors of a batch, named by their page: one for every page chunk
\* whose content is not blank (generateEmbedding always answers a vector)
Vectors(batch) ==
  LET kept == SelectSeq(batch, LAMBDA pageChunk :
                          Truthy(pageChunk.content)
                            /\ Len(Trim(pageChunk.content)) > 0)
  IN  [k \in DOMAIN kept |-> kept[k].pageNumber]

\* the retry loop goes on after a failed attempt
CanRetryOnceMore(retryCount) == retryCount <= maxRetries

CanRetry(retryCount) == retryCount < maxRetries

\* the for loop from offset i on: batches without vectors are passed over;
\* the first batch with vectors is upserted, and past the last batch the
\* function waits for the index
RECURSIVE BatchLoop(_, _)
BatchLoop(st, i) ==
  IF i < Len(st.pageChunks)
  THEN LET vectors == Vectors(Batch(st.pageChunks, i))
       IN  IF Len(vectors) > 0
           THEN [st EXCEPT !.pc = "upsert", !.i = i, !.vectors = vectors,
                           !.retryCount = 0]
           ELSE BatchLoop(st, i + batchSize)
  ELSE [st EXCEPT !.pc = "wait", !.i = i, !.vectors = <<>>]

StoreBegin ==
  /\ store.pc = "start"
  /\ store' = BatchLoop(store, 0)
  /\ UNCHANGED <<engineVars, dedupVars, parser, strings, report, chunker,
                 fields, notStore>>

\* the index answers an upsert; its errors are told apart by the number of
\* the call
StoreUpsert(ok) ==
  /\ store.pc = "upsert"
  /\ LET call == Len(store.upserts) + 1
         logged == [store EXCEPT
                      !.upserts = Append(@, [i |-> store.i,
                                             vectors |-> store.vectors,
                                             ok |-> ok])]
     IN  IF ok
         THEN LET stored == [logged EXCEPT
                               !.totalStored = @ + Len(store.vectors)]
              IN  store' = IF Len(store.pageChunks) > 100
                           THEN [stored EXCEPT !.pc = "pause"]
                           ELSE BatchLoop(stored, store.i + batchSize)
         ELSE IF CanRetry(store.retryCount + 1)
         THEN store' = [logged EXCEPT !.retryCount = @ + 1,
                                      !.pc = "backoff"]
         ELSE store' = [logged EXCEPT !.retryCount = @ + 1,
                                      !.result = Error(call),
                                      !.pc = "done"]
  /\ UNCHANGED <<engineVars, dedupVars, parser, strings, report, chunker,
                 fields, notStore>>

\* the backoff timer fires
StoreBackoff ==
  /\ store.pc = "backoff"
  /\ store' = [store EXCEPT !.pc = "upsert"]
  /\ UNCHANGED <<engineVars, dedupVars, parser, strings, report, chunker,
                 fields, notStore>>

\* the timer between the batches of a large document fires
StorePause ==
  /\ store.pc = "pause"
  /\ store' = BatchLoop(store, store.i + batchSize)
  /\ UNCHANGED <<engineVars, dedupVars, parser, strings, report, chunker,
                 fields, notStore>>

\* the timer of the wait for the index fires: verifyStoredData is called
StoreWaited ==
  /\ store.pc = "wait"
  /\ store' = [store EXCEPT !.pc = "verify",
                            !.verified = [called |-> TRUE,
                                          expectedCount |-> store.totalStored]]
  /\ UNCHANGED <<engineVars, dedupVars, parser, strings, report, chunker,
                 fields, notStore>>

\* verifyStoredData answers (it swallows its errors)
StoreVerified ==
  /\ store.pc = "verify"
  /\ store' = [store EXCEPT !.pc = "done",
                            !.result = [returned |-> TRUE, value |-> TRUE]]
  /\ UNCHANGED <<engineVars, dedupVars, parser, strings, report, chunker,
                 fields, notStore>>

InitStore ==
  /\ thresholds = DefaultThresholds
  /\ adminResponse = NoResponse
  /\ index = <<>>
  /\ modelDim = FallbackDim
  /\ IdleCall
  /\ prev = NoCall
  /\ dedupInput = <<>>
  /\ dedupOutput = NotReturned
  /\ parser = NoParse
  /\ strings = NoStrings
  /\ report = NoReport
  /\ chunker = NoChunks
  /\ fields = NoFields
  /\ splitter = NoSplit
  /\ upload = NoUpload
  /\ \E pageChunks \in PageDocuments :
       store = [pc          |-> "start",
                pageChunks  |-> pageChunks,
                i           |-> 0,
                vectors     |-> <<>>,
                retryCount  |-> 0,
                totalStored |-> 0,
                upserts     |-> <<>>,
                verified    |-> [called |-> FALSE],
                result      |-> NotReturned]

NextStore ==
  \/ StoreBegin
  \/ \E ok \in BOOLEAN : StoreUpsert(ok)
  \/ StoreBackoff
  \/ StorePause
  \/ StoreWaited
  \/ StoreVerified

SpecStore == InitStore /\ [][NextStore]_vars

----------------------------------------------------------------------------
(* Properties of the engine *)

\* the step in which a call returns its result
Completes == pc # "done" /\ pc' = "done"

\* the records of a list of pass results
Kept(results) == {results[i].trademark : i \in DOMAIN results}

\* the entries of a list for a record
EntriesOf(list, trademark) ==
  {i \in DOMAIN list : list[i].trademark = trademark}

\* C1: when a call returns, every entry of similarTrademarks has an
\* overallScore that is at least the overallSimilarity threshold in force in
\* the step that filters, whatever updates came before or during the call.
C1_ThresholdFilter ==
  [][Completes =>
       \A i \in DOMAIN response'.similarTrademarks :
         RGe(response'.similarTrademarks[i].overallScore,
             thresholds.overallSimilarity)]_vars

\* a call that returned after the overall threshold was raised, in which the
\* filter dropped a fused entry that the threshold of the constructor admits
C1_Witness ==
  /\ pc = "done"
  /\ thresholds.overallSimilarity = R(3, 5)
  /\ Len(response.similarTrademarks) >= 1
  /\ Len(response.similarTrademarks) < TopKOf(options)
  /\ \E i \in DOMAIN combinedResults :
       /\ RLt(combinedResults[i].overallScore, thresholds.overallSimilarity)
       /\ RGe(combinedResults[i].overallScore,
              DefaultThresholds.overallSimilarity)

\* C2: a returned similarTrademarks list has at most topK entries, topK being
\* the option of the call or 20 when the option is absent.
C2_TopKBound ==
  pc = "done" => Len(response.similarTrademarks) <= TopKOf(options)

\* a call with topK = 1 in which two fused entries pass every overall
\* threshold of the model and one entry is returned
C2_Witness ==
  /\ pc = "done"
  /\ TopKOf(options) = 1
  /\ Len(response.similarTrademarks) = 1
  /\ Cardinality({i \in DOMAIN combinedResults :
                    RGe(combinedResults[i].overallScore, R(3, 5))}) >= 2

\* the components of a fused entry, an absent one counting as 0
TextOf(entry) ==
  IF IsNull(entry.textSimilarity) THEN Zero ELSE entry.textSimilarity.overall

SemanticOf(entry) ==
  IF IsNull(entry.descriptionSimilarity) THEN Zero
  ELSE entry.descriptionSimilarity.semantic

PhoneticOf(entry) ==
  IF IsNull(entry.phoneticSimilarity) THEN Zero
  ELSE entry.phoneticSimilarity.score

\* C3: every record kept by at least one pass has a fused entry, and ten
\* times the overallScore of every fused entry is 4 * lexical + 3 * semantic
\* + 3 * phonetic with 0 for an absent component; an entry kept by the
\* semantic pass alone with score 9/10 has overallScore 27/100.
C3_WeightedSum ==
  pc = "done" =>
    /\ \A t \in Kept(textResults) \cup Kept(descResults) \cup Kept(phoneticResults) :
         EntriesOf(combinedResults, t) # {}
    /\ \A i \in DOMAIN combinedResults :
         LET e == combinedResults[i]
         IN  /\ RMul(e.overallScore, R(10, 1)) =
                  RAdd(RAdd(RMul(R(4, 1), TextOf(e)), RMul(R(3, 1), SemanticOf(e))),
                       RMul(R(3, 1), PhoneticOf(e)))
             /\ (/\ IsNull(e.textSimilarity)
                 /\ IsNull(e.phoneticSimilarity)
                 /\ SemanticOf(e) = R(9, 10)) => e.overallScore = R(27, 100)

\* a fused entry kept by the semantic pass alone, with semantic score 9/10
C3_Witness ==
  /\ pc = "done"
  /\ \E i \in DOMAIN combinedResults :
       /\ IsNull(combinedResults[i].textSimilarity)
       /\ IsNull(combinedResults[i].phoneticSimilarity)
       /\ SemanticOf(combinedResults[i]) = R(9, 10)
       /\ combinedResults[i].overallScore = R(27, 100)

\* the rank at which a record is first inserted into the fusion map: the
\* lexical results come first, then the semantic ones, then the phonetic ones
FirstInserted(trademark) ==
  LET all == textResults \o descResults \o phoneticResults
  IN  CHOOSE i \in DOMAIN all :
        /\ all[i].trademark = trademark
        /\ \A j \in 1..(i - 1) : all[j].trademark # trademark

\* C4: a returned list is ordered by non-increasing overallScore, entries of
\* equal score stand in the order of their first insertion into the fusion
\* map, and no fused entry left out of the list has a higher score than an
\* entry of the list.
C4_Ordering ==
  pc = "done" =>
    LET out == response.similarTrademarks
    IN  /\ \A i, j \in DOMAIN out :
             i < j =>
               /\ RGe(out[i].overallScore, out[j].overallScore)
               /\ out[i].overallScore = out[j].overallScore =>
                    FirstInserted(out[i].trademark)
                      < FirstInserted(out[j].trademark)
        /\ \A c \in DOMAIN combinedResults :
             EntriesOf(out, combinedResults[c].trademark) = {} =>
               \A i \in DOMAIN out :
                 RGe(out[i].overallScore, combinedResults[c].overallScore)

\* a returned list with two entries of one score, the second one first met
\* in a later pass result than the first
C4_Witness ==
  /\ pc = "done"
  /\ Len(response.similarTrademarks) >= 2
  /\ response.similarTrademarks[1].overallScore
       = response.similarTrademarks[2].overallScore

\* C7: at the end of a call every record kept by k >= 1 passes has exactly
\* one fused entry, that entry carries exactly the component results the
\* passes kept for the record, and no two fused entries have the same key.
C7_OneEntryPerRecord ==
  pc = "done" =>
    /\ \A t \in Kept(textResults) \cup Kept(descResults) \cup Kept(phoneticResults) :
         /\ Cardinality(EntriesOf(combinedResults, t)) = 1
         /\ LET e == combinedResults[CHOOSE i \in EntriesOf(combinedResults, t) : TRUE]
            IN  /\ \A i \in EntriesOf(textResults, t) :
                     e.textSimilarity = textResults[i].textSimilarity
                /\ \A i \in EntriesOf(descResults, t) :
                     e.descriptionSimilarity = descResults[i].descriptionSimilarity
                /\ \A i \in EntriesOf(phoneticResults, t) :
                     e.phoneticSimilarity = phoneticResults[i].phoneticSimilarity
                /\ IsNull(e.textSimilarity) <=> EntriesOf(textResults, t) = {}
                /\ IsNull(e.descriptionSimilarity) <=> EntriesOf(descResults, t) = {}
                /\ IsNull(e.phoneticSimilarity) <=> EntriesOf(phoneticResults, t) = {}
    /\ \A i, j \in DOMAIN combinedResults :
         KeyOf(combinedResults[i].trademark) = KeyOf(combinedResults[j].trademark)
           => i = j

\* a record kept by all three passes whose entry carries the three results,
\* next to another fused entry
C7_Witness ==
  /\ pc = "done"
  /\ Len(combinedResults) >= 2
  /\ \E t \in Kept(textResults) \cap Kept(descResults) \cap Kept(phoneticResults) :
       \E i \in EntriesOf(combinedResults, t) :
         /\ ~IsNull(combinedResults[i].textSimilarity)
         /\ ~IsNull(combinedResults[i].descriptionSimilarity)
         /\ ~IsNull(combinedResults[i].phoneticSimilarity)


\* the call at hand repeats the remembered request and both calls returned a
\* list
Repeated ==
  /\ pc = "done"
  /\ prev.called
  /\ prev.done
  /\ prev.target = target
  /\ prev.options = options

FailedSemanticCalls ==
  {c \in failedCalls : c.call \in {"target", "description"}}

LengthError == Error("Vectors must have the same length")

DescriptionStep == pc = "embedDescription" /\ (pc' # pc \/ idx' # idx)

\* the length of the vector that arrives in a DescriptionStep
ArrivedLength == IF failedCalls' = failedCalls THEN modelDim ELSE FallbackDim

\* C9: when the embedding of a description arrives with a length other than
\* that of the query embedding, the call fails with the error of
\* calculateCosineSimilarity, returns no list and keeps no score for the
\* record.
C9_DimensionMismatch ==
  [][(DescriptionStep /\ targetEmbedding.len # ArrivedLength) =>
       /\ pc' = "failed"
       /\ response' = LengthError
       /\ descResults' = descResults]_vars

\* a call that failed on a description embedding of another length than the
\* query embedding
C9_Witness ==
  /\ pc = "failed"
  /\ response = LengthError
  /\ idx \in DOMAIN allTrademarks
  /\ targetEmbedding.len \in ModelDims

\* the description of goods/services of a record is empty or whitespace
BlankDescription(trademark) ==
  \A i \in DOMAIN trademark.trademarkData.uraianBarangJasa :
    trademark.trademarkData.uraianBarangJasa[i] \in WhiteChars

\* C13: the semantic pass never awaits an embedding for a record whose
\* description is empty or whitespace, keeps no result for such a record,
\* and the fused entry of such a record has no semantic component.
C13_BlankDescriptionSkipped ==
  /\ pc = "embedDescription" => ~BlankDescription(allTrademarks[idx])
  /\ \A i \in DOMAIN descResults : ~BlankDescription(descResults[i].trademark)
  /\ pc = "done" =>
       \A i \in DOMAIN combinedResults :
         BlankDescription(combinedResults[i].trademark) =>
           IsNull(combinedResults[i].descriptionSimilarity)

\* a returned list with an entry for a record of whitespace description,
\* next to a record that got a semantic score
C13_Witness ==
  /\ pc = "done"
  /\ descResults # <<>>
  /\ \E i \in DOMAIN response.similarTrademarks :
       /\ BlankDescription(response.similarTrademarks[i].trademark)
       /\ response.similarTrademarks[i].trademark.trademarkData.uraianBarangJasa
            # <<>>
       /\ IsNull(response.similarTrademarks[i].descriptionSimilarity)

----------------------------------------------------------------------------
(* Properties of the threshold admin surface *)

\* C8: the thresholds start as text 7/10, phonetic 8/10, semantic 6/10,
\* overall 3/10; an accepted updateThresholds sets exactly the keys of its
\* body and leaves the other keys as they were, a rejected one changes
\* nothing, and getConfiguration answers the thresholds as merged so far.
C8_PartialMerge ==
  /\ thresholds = [textSimilarity     |-> R(7, 10),
                   phoneticSimilarity |-> R(8, 10),
                   semanticSimilarity |-> R(6, 10),
                   overallSimilarity  |-> R(3, 10)]
  /\ [][LET r == adminResponse'
        IN  /\ DOMAIN thresholds' = ThresholdKeys
            /\ (r.op = "updateThresholds" /\ r.status = 200) =>
                 /\ \A k \in ThresholdKeys :
                      thresholds'[k] =
                        IF k \in DOMAIN r.body.thresholds
                        THEN r.body.thresholds[k] ELSE thresholds[k]
                 /\ r.newThresholds = thresholds'
            /\ (r.op = "updateThresholds" /\ r.status = 400) =>
                 thresholds' = thresholds
            /\ r.op = "getConfiguration" =>
                 (r.thresholds = thresholds /\ thresholds' = thresholds)]_vars

\* getConfiguration answers after two accepted partial updates: text from
\* the first, overall from the second, phonetic and semantic from the
\* constructor
C8_Witness ==
  /\ adminResponse.op = "getConfiguration"
  /\ adminResponse.thresholds = [textSimilarity     |-> R(1, 2),
                                 phoneticSimilarity |-> R(8, 10),
                                 semanticSimilarity |-> R(6, 10),
                                 overallSimilarity  |-> R(1, 4)]

\* a number of [0, 1]
InUnitInterval(x) == RGe(x, Zero) /\ RGe(One, x)

\* the bodies the validation has to reject: no thresholds object, an unknown
\* key, a value outside [0, 1]
Rejectable(body) ==
  \/ "thresholds" \notin DOMAIN body
  \/ \E k \in DOMAIN body.thresholds :
       k \notin ThresholdKeys \/ ~InUnitInterval(body.thresholds[k])

\* C27: after any sequence of updateThresholds requests the thresholds have
\* exactly the four keys text, phonetic, semantic and overall, each a number
\* in [0, 1]; a request with a value outside [0, 1], an unknown key or no
\* thresholds object is answered with an error and leaves the four
\* thresholds as they were.
C27_ThresholdsWellFormed ==
  /\ [](/\ DOMAIN thresholds = ThresholdKeys
        /\ \A k \in ThresholdKeys : InUnitInterval(thresholds[k]))
  /\ [][LET r == adminResponse'
        IN  (r.op = "updateThresholds" /\ Rejectable(r.body)) =>
              (r.status = 400 /\ thresholds' = thresholds)]_vars

\* a request with an unknown key is answered 400 after an accepted update
\* moved the thresholds away from the constructor's
C27_Witness ==
  /\ adminResponse.op = "updateThresholds"
  /\ adminResponse.status = 400
  /\ "thresholds" \in DOMAIN adminResponse.body
  /\ "visualSimilarity" \in DOMAIN adminResponse.body.thresholds
  /\ thresholds # DefaultThresholds

----------------------------------------------------------------------------
(* Properties of the deduplication *)

\* the positions of a list that hold the first record of their application
\* number
FirstOfNumber(trademarks) ==
  {i \in DOMAIN trademarks :
     \A j \in 1..(i - 1) :
       trademarks[j].nomorPermohonan # trademarks[i].nomorPermohonan}

\* C10 as stated: deduplicateTrademarks returns, in input order, exactly the
\* first record of every application number of its input.
C10_FirstPerNumber ==
  dedupOutput.returned =>
    LET keep == FirstOfNumber(dedupInput)
        out  == dedupOutput.value
    IN  /\ Len(out) = Cardinality(keep)
        /\ \A i \in keep :
             LET rank == Cardinality({k \in keep : k <= i})
             IN  rank \in DOMAIN out /\ out[rank] = dedupInput[i]

----------------------------------------------------------------------------
(* Properties of parseTrademarkDataEnhanced *)

\* the application number, the mark name and the class are not empty
Complete(tm) ==
  /\ tm.nomorPermohonan # <<>>
  /\ tm.namaReferensiLabelMerek # <<>>
  /\ tm.kelasBarangJasa # <<>>

\* the sections of the full text whose record lacks one of the three
IncompleteSections ==
  IF IsNull(parser.fullText) THEN {}
  ELSE {i \in DOMAIN parser.fullText.sections :
          ~Complete(parseSection(parser.fullText.sections[i]))}

\* the page pass raised an error
PagesThrew ==
  \/ IsNull(parser.pageChunks)
  \/ \E i \in DOMAIN parser.pageChunks.chunks :
       IsNull(parser.pageChunks.chunks[i])

\* the records of the anchors of the marked pages
AnchorRecords ==
  IF PagesThrew THEN {}
  ELSE LET chunks == parser.pageChunks.chunks
       IN  UNION { { extractFieldsFromContext(chunks[i].content[a].context,
                                              Trim(chunks[i].content[a].groups[1]))
                       : a \in DOMAIN chunks[i].content }
                   : i \in {j \in DOMAIN chunks :
                              /\ chunks[j].hasTrademarkData
                              /\ "content" \in DOMAIN chunks[j]} }

\* C11: every record parseTrademarkDataEnhanced returns, from the pages,
\* from the full text after an empty page pass or from the full text after
\* an error, has an application number, a mark name and a class that are
\* not empty.
C11_ReturnedRecordsValid ==
  parser.pc = "returned" =>
    \A i \in DOMAIN parser.result.value : Complete(parser.result.value[i])

\* a call that went through the catch block and returned a record from a
\* full text that also holds a section without a complete record
C11_Witness ==
  /\ parser.pc = "returned"
  /\ PagesThrew
  /\ Len(parser.result.value) >= 1
  /\ IncompleteSections # {}

\* C12: extractTrademarkData runs on the full text when the page pass gave
\* no valid record or raised an error, does not run when the page pass gave
\* a valid record without error, and never runs twice in one call.
C12_FallbackOnce ==
  /\ parser.pc # "idle" => parser.coarseRuns <= 1
  /\ parser.pc = "returned" =>
       (parser.coarseRuns = 1 <=>
          (PagesThrew \/ \A tm \in AnchorRecords : ~Complete(tm)))

\* a call whose marked pages hold anchors but no complete record, which
\* returned the records of the full text
C12_Witness ==
  /\ parser.pc = "returned"
  /\ ~PagesThrew
  /\ AnchorRecords # {}
  /\ parser.coarseRuns = 1
  /\ Len(parser.result.value) >= 1

----------------------------------------------------------------------------
(* Properties of the lexical measures *)

\* C14: for normalized strings a and b the combined lexical score and each
\* of its three measures, and the Jaro similarity under Jaro-Winkler, have
\* the same value for (a, b) and for (b, a).
C14_LexicalSymmetry ==
  strings.pc = "done" =>
    /\ strings.ab.scores = strings.ba.scores
    /\ strings.ab.jaro = strings.ba.jaro

\* two different strings of different length with matched characters out of
\* order, measured in both orders
C14_Witness ==
  /\ strings.pc = "done"
  /\ Len(strings.a) # Len(strings.b)
  /\ strings.a # <<>>
  /\ strings.b # <<>>
  /\ RLt(strings.ab.jaro, One)
  /\ RGt(strings.ab.jaro, R(7, 10))
  /\ strings.ab.scores.substring # strings.ab.scores.levenshtein

\* the edit distance by its recursive definition
RECURSIVE EditDistance(_, _)
EditDistance(a, b) ==
  IF a = <<>> THEN Len(b)
  ELSE IF b = <<>> THEN Len(a)
  ELSE IF Head(a) = Head(b) THEN EditDistance(Tail(a), Tail(b))
  ELSE 1 + Min2(EditDistance(Tail(a), b),
                Min2(EditDistance(a, Tail(b)),
                     EditDistance(Tail(a), Tail(b))))

\* C15: levenshteinDistance(a, b) is the least number of insertions,
\* deletions and substitutions of one character that turn a into b, and
\* calculateLevenshteinSimilarity(a, b) is 1 - distance / max(len a, len b),
\* 1 for two empty strings; "abc"/"abc" gives 1 and "abc"/"abd" gives 2/3.
C15_Levenshtein ==
  strings.pc = "done" =>
    LET a == strings.a
        b == strings.b
        longest == IF Len(a) >= Len(b) THEN Len(a) ELSE Len(b)
    IN  /\ strings.ab.distance = EditDistance(a, b)
        /\ longest = 0 => strings.ab.similarity = One
        /\ longest > 0 =>
             RMul(strings.ab.similarity, R(longest, 1)) =
               R(longest - strings.ab.distance, 1)
        /\ (a = <<"a", "b", "c">> /\ b = a) => strings.ab.similarity = One
        /\ (a = <<"a", "b", "c">> /\ b = <<"a", "b", "d">>) =>
             strings.ab.similarity = R(2, 3)

\* "abc" measured against "abd"
C15_Witness ==
  /\ strings.pc = "done"
  /\ strings.a = <<"a", "b", "c">>
  /\ strings.b = <<"a", "b", "d">>
  /\ strings.ab.distance = 1
  /\ strings.ab.similarity = R(2, 3)

----------------------------------------------------------------------------
(* Properties of generateSimilarityReport *)

\* the analyzeSimilarity call the report owes the target at position k
OwedCall(k) ==
  [trademark |-> Get(report.targets[k], "namaMerek"),
   options   |-> [topK |-> ReportTopK, dateRange |-> report.request.dateRange]]

\* the positions of the targets whose analysis gave at least one match
Hits ==
  { k \in 1..Len(report.results) :
      /\ ~IsError(report.results[k])
      /\ report.results[k].similarTrademarks # <<>> }

BestScore(k) == report.results[k].similarTrademarks[1].overallScore

\* the findings owed for the first k awaited analyses, in target order
RECURSIVE OwedFindings(_)
OwedFindings(k) ==
  IF k = 0 THEN <<>>
  ELSE IF k \in Hits
       THEN Append(OwedFindings(k - 1),
                   [targetTrademark   |-> report.targets[k],
                    similarTrademarks |-> report.results[k].similarTrademarks,
                    highestSimilarity |-> BestScore(k)])
       ELSE OwedFindings(k - 1)

\* the findings owed for the analyses that succeeded so far
SuccessfulFindings ==
  OwedFindings(IF report.pc = "failed" THEN Len(report.results) - 1
               ELSE Len(report.results))

\* C16: the report calls analyzeSimilarity for the targets in order, one at
\* a time, each with topK 10 and the request's date range, and a returned
\* report has called it exactly once per target; every target with a match
\* adds one finding and one to the counter of its best score (>= 0.8 high,
\* >= 0.7 medium, else low), so the three counters sum to the number of
\* findings, which never exceeds totalAnalyzed
C16_ReportBuckets ==
  report.pc \in {"analyze", "returned", "failed"} =>
    LET n == Len(report.calls)
        r == report.report
        high == { k \in Hits : RGe(BestScore(k), R(8, 10)) }
        medium == { k \in Hits \ high : RGe(BestScore(k), R(7, 10)) }
    IN  /\ n <= Len(report.targets)
        /\ Len(report.results) = n
        /\ \A k \in 1..n : report.calls[k] = OwedCall(k)
        /\ \A k \in 1..(n - 1) : ~IsError(report.results[k])
        /\ report.pc = "analyze" => n = report.i - 1 /\ n < Len(report.targets)
        /\ report.pc = "returned" => n = Len(report.targets)
        /\ r.totalAnalyzed = Len(report.targets)
        /\ report.pc # "failed" =>
             /\ r.similarityFindings = OwedFindings(n)
             /\ r.summary.highSimilarity = Cardinality(high)
             /\ r.summary.mediumSimilarity = Cardinality(medium)
             /\ r.summary.lowSimilarity = Cardinality(Hits \ (high \cup medium))
        /\ r.summary.highSimilarity + r.summary.mediumSimilarity
             + r.summary.lowSimilarity = Len(r.similarityFindings)
        /\ Len(r.similarityFindings) <= r.totalAnalyzed

\* a returned report of two targets whose best scores are exactly 0.8 and 0.7
C16_Witness ==
  /\ report.pc = "returned"
  /\ Len(report.calls) = 2
  /\ Len(report.report.similarityFindings) = 2
  /\ report.report.similarityFindings[1].highestSimilarity = R(8, 10)
  /\ report.report.similarityFindings[2].highestSimilarity = R(7, 10)
  /\ report.report.summary =
       [highSimilarity |-> 1, mediumSimilarity |-> 1, lowSimilarity |-> 0]

\* C17: when the analysis of a target fails the report is still returned,
\* with the findings of the targets analysed successfully
C17_PartialReport ==
  (/\ report.pc \in {"analyze", "returned", "failed"}
   /\ \E k \in 1..Len(report.results) : IsError(report.results[k]))
  => /\ report.pc # "failed"
     /\ report.response # Null =>
          /\ report.response.status = 200
          /\ report.response.data.similarityFindings = SuccessfulFindings

\* C24: with the size cap maxAnalyze = m of a report request, totalAnalyzed
\* and the number of analyzeSimilarity calls are at most m, both when the
\* request names its targets and when they are taken from the corpus of the
\* date range
C24_SizeCap ==
  report.pc \in {"corpus", "analyze", "returned", "failed"} =>
    /\ report.report.totalAnalyzed <= report.request.options.maxAnalyze
    /\ Len(report.calls) <= report.request.options.maxAnalyze

----------------------------------------------------------------------------
(* Properties of splitIntoChunks *)

\* the window loop has run on the text
InLoop == chunker.pc \in {"loop", "returned"} /\ chunker.windows # <<>>

\* every window so far began before the end of the text and after the window
\* before it, the next one begins after the last, and the chunks lie in the
\* order of the text
StartIncreases ==
  /\ InLoop =>
       LET windows == chunker.windows
       IN  /\ \A k \in 1..Len(windows) : windows[k].start < chunker.text.length
           /\ \A k \in 1..(Len(windows) - 1) :
                windows[k + 1].start > windows[k].start
           /\ chunker.start > windows[Len(windows)].start
           /\ chunker.pc = "returned" => chunker.start >= chunker.text.length
           /\ \A k \in 1..(Len(chunker.chunks) - 1) :
                /\ chunker.chunks[k].start <= chunker.chunks[k + 1].start
                /\ chunker.chunks[k].end <= chunker.chunks[k + 1].end
  /\ (/\ chunker.pc = "returned"
      /\ (IsNull(chunker.text) \/ chunker.text.length = 0))
       => chunker.result = <<>>

\* C18: the generic loop of splitIntoChunks ends on every text: the window
\* start grows on every iteration until it reaches the end of the text, an
\* empty or missing text gives the empty list, and the chunks are in text
\* order
C18_Terminates ==
  /\ []StartIncreases
  /\ (chunker.pc = "start") ~> (chunker.pc = "returned")

\* a text of more than two windows was split and returned
C18_Witness ==
  /\ chunker.pc = "returned"
  /\ Len(chunker.windows) >= 3
  /\ Len(chunker.result) >= 3
  /\ \E k \in 1..Len(chunker.windows) :
       chunker.windows[k].end - chunker.windows[k].start < chunkSize

\* consecutive windows: the next begins chunkOverlap before the end of the
\* previous one
NoGap ==
  InLoop =>
    \A k \in 1..(Len(chunker.windows) - 1) :
      /\ chunker.windows[k + 1].start = chunker.windows[k].end - chunkOverlap
      /\ chunker.windows[k + 1].start <= chunker.windows[k].end

\* C19: every chunk of the generic loop is at most chunkSize long, also when
\* the cut is moved to a sentence-punctuation character, and consecutive
\* windows leave no gap
C19_ChunkBound ==
  /\ InLoop => \A k \in 1..Len(chunker.chunks) :
                 ChunkLength(chunker.chunks[k]) <= chunkSize
  /\ NoGap

----------------------------------------------------------------------------
(* Properties of the field extractors *)

\* the patterns of the field that match the text
MatchingPatterns ==
  { i \in 1..PatternCount(fields.field) :
      ~IsNull(fields.text[fields.field][i]) }

FirstMatching == CHOOSE i \in MatchingPatterns : \A j \in MatchingPatterns : i <= j

\* the extractor selected the first matching pattern and took its capture
TookFirst(picked) ==
  IF MatchingPatterns = {}
  THEN picked.pattern = 0 /\ picked.value = Undefined
  ELSE /\ picked.pattern = FirstMatching
       /\ picked.value # Undefined
       /\ picked.value[1] = PatternDigit(FirstMatching)

\* C20: for every field and text both extractors go through the patterns in
\* their declared order and take the value of the first one that matches,
\* never the capture of a later one, and parseSection and
\* extractTrademarkFieldsFromText select the same pattern
C20_FirstMatch ==
  /\ fields.pc \in {"parsed", "extracted"} => TookFirst(fields.section)
  /\ fields.pc = "extracted" =>
       /\ TookFirst(fields.extracted)
       /\ fields.extracted.pattern = fields.section.pattern

\* both extractors read a text on which the second and a later pattern
\* match, and the first does not
C20_Witness ==
  /\ fields.pc = "extracted"
  /\ Cardinality(MatchingPatterns) >= 2
  /\ FirstMatching = 2
  /\ fields.extracted.pattern = 2
  /\ fields.section.pattern = 2

----------------------------------------------------------------------------
(* Properties of the mark names the passes read *)

\* C25: for every corpus record of an analysis for which the lexical pass
\* resolves a non-empty mark name, the phonetic pass reads that same name,
\* and the phonetic code of every phonetic result is the code of that name
C25_SameMarkName ==
  (pc = "done" /\ IncludePhoneticOf(options)) =>
    /\ \A i \in 1..Len(allTrademarks) :
         TextPassName(allTrademarks[i]) # <<>> =>
           PhoneticPassName(allTrademarks[i]) = TextPassName(allTrademarks[i])
    /\ \A i \in 1..Len(phoneticResults) :
         phoneticResults[i].phoneticSimilarity.trademarkPhonetic =
           generatePhoneticCode(TextPassName(phoneticResults[i].trademark))

----------------------------------------------------------------------------
(* Properties of the fusion over records without identifiers *)

\* the component of a fused entry is the one a pass computed for the record
\* of the entry
OwnComponent(entry, results, component) ==
  IsNull(entry[component]) \/
    \E i \in DOMAIN results :
      /\ results[i].trademark = entry.trademark
      /\ results[i][component] = entry[component]

----------------------------------------------------------------------------
(* Properties of the upload flow *)

\* C28: for every upload request that carries a file, fs.unlink has been
\* called on the temporary file by the time the response is sent, on every
\* path: successful processing, a failure at a processing step, and the
\* controller's own rejection of the file type or the file size
C28_TempFileUnlinked ==
  \A id \in 1..MaxUploads :
    (upload.responses[id] # NoneYet /\ ~IsNull(upload.files[id]))
      => id \in upload.unlinked

\* the sub-progress is not reported before the first step: a percentage
\* that changes within step 0 comes from updateSubProgress
NoEarlySubProgress ==
  \A id \in 1..MaxUploads :
    LET p == upload.activeUploads[id]
        q == upload'.activeUploads[id]
    IN  (p # Absent /\ q # Absent /\ q.currentStep = p.currentStep
           /\ q.percentage # p.percentage /\ q.status = "started")
          => p.currentStep >= 1

\* the percentages and step counts of the records stay in range
ProgressInRange ==
  \A id \in 1..MaxUploads :
    LET p == upload.activeUploads[id]
    IN  p # Absent =>
          /\ p.percentage \in 0..100
          /\ p.currentStep <= p.totalSteps

\* C29: every progress record created by startProgress reaches status
\* completed or failed and is removed from activeUploads afterwards; its
\* percentage stays within 0..100, nextStep is called at most totalSteps
\* times and updateSubProgress is not called before the first nextStep
C29_ProgressEnds ==
  /\ []ProgressInRange
  /\ [][NoEarlySubProgress]_vars
  /\ \A id \in 1..MaxUploads :
       /\ (upload.activeUploads[id].status = "started")
            ~> (upload.activeUploads[id].status \in {"completed", "failed"})
       /\ (upload.activeUploads[id] # Absent)
            ~> (upload.activeUploads[id] = Absent)

----------------------------------------------------------------------------
(* Properties of storePageBasedDocument *)

\* the number of vectors the successful upserts of the log sent
StoredByLog ==
  SumTo([k \in DOMAIN store.upserts |->
           IF store.upserts[k].ok THEN Len(store.upserts[k].vectors) ELSE 0],
        Len(store.upserts))

\* C30: the upsert of a batch is attempted at most 3 times and not again
\* after its first success; when all 3 attempts fail the third error is
\* thrown, no later batch is processed and verifyStoredData is not run;
\* totalStored counts the vectors of the batches whose upsert succeeded,
\* and the batches are upserted in page order
C30_BoundedRetries ==
  LET log == store.upserts
  IN  /\ \A k \in DOMAIN log :
           /\ Cardinality({j \in DOMAIN log : log[j].i = log[k].i}) <= 3
           /\ log[k].ok => \A j \in DOMAIN log : j > k => log[j].i > log[k].i
           /\ \A j \in DOMAIN log : j < k => log[j].i <= log[k].i
           /\ \A v \in DOMAIN log[k].vectors :
                /\ log[k].vectors[v] > log[k].i
                /\ log[k].vectors[v] <= log[k].i + 100
                /\ v > 1 => log[k].vectors[v - 1] < log[k].vectors[v]
      /\ \A k \in DOMAIN log :
           (/\ k + 2 \in DOMAIN log
            /\ \A j \in k..(k + 2) : log[j].i = log[k].i /\ ~log[j].ok)
             => /\ k + 2 = Len(log)
                /\ store.pc = "done"
                /\ store.result = Error(k + 2)
                /\ ~store.verified.called
      /\ store.totalStored = StoredByLog

\* the first batch was stored at its second attempt and the three attempts
\* of the second batch failed
C30_Witness ==
  /\ store.pc = "done"
  /\ IsError(store.result)
  /\ Len(store.upserts) = 5
  /\ ~store.upserts[1].ok
  /\ store.upserts[2].ok
  /\ store.totalStored = 100

----------------------------------------------------------------------------
(* Properties of the thresholds under running analyses *)

\* a threshold object with every supplied key of a request applied
WholeUpdate(t, body) ==
  [k \in ThresholdKeys |->
     IF k \in DOMAIN body.thresholds THEN body.thresholds[k] ELSE t[k]]

\* the threshold objects that whole updates make of a set of them
RECURSIVE WholeUpdates(_)
WholeUpdates(S) ==
  LET T == S \cup { WholeUpdate(t, body) : t \in S, body \in CallBodies }
  IN  IF T = S THEN S ELSE WholeUpdates(T)

\* C21: under every interleaving of updateThresholds requests with a running
\* analysis the thresholds object an analysis reads holds each update with
\* all of its keys applied or with none of them
C21_NoTornThresholds == thresholds \in WholeUpdates({DefaultThresholds})

\* an update was merged while an analysis waited for an embedding
C21_Witness ==
  /\ pc = "embedDescription"
  /\ adminResponse.op = "updateThresholds"
  /\ adminResponse.status = 200
  /\ Cardinality(DOMAIN adminResponse.body.thresholds) > 1
  /\ thresholds # DefaultThresholds
  /\ textResults # <<>>

\* the semantic pass compared the score of the record at idx in this step
Compared ==
  /\ pc = "embedDescription"
  /\ pc' \in {"embedDescription", "done"}
  /\ idx' # idx \/ pc' = "done"

\* C22 as stated: every candidate of one semantic pass is compared against
\* one threshold value, so every candidate kept so far passes the value the
\* present candidate is compared against
C22_OneThreshold ==
  [][Compared =>
       \A i \in 1..Len(descResults) :
         RGe(descResults[i].descriptionSimilarity.semantic,
             thresholds.semanticSimilarity)]_vars

\* C22: every candidate of the semantic pass is compared against the
\* semanticSimilarity threshold in force when its own embedding returns
C22_ThresholdAtComparison ==
  [][Compared =>
       LET trademark == allTrademarks[idx]
           provided ==
             calculateCosineSimilarity(
               targetEmbedding,
               generateEmbedding(DescriptionOf(trademark), modelDim,
                                 [ok |-> TRUE, random |-> <<>>]))
       IN  IF Len(descResults') = Len(descResults) + 1
           THEN LET kept == descResults'[Len(descResults')]
                IN  /\ kept.trademark = trademark
                    /\ RGe(kept.descriptionSimilarity.semantic,
                           thresholds.semanticSimilarity)
           ELSE /\ descResults' = descResults
                /\ failedCalls' = failedCalls =>
                     RLt(provided.value, thresholds.semanticSimilarity)]_vars

\* a pass ended that kept one candidate under the earlier value and dropped
\* another under the value of an update merged in between
C22_Witness ==
  /\ pc = "done"
  /\ Len(allTrademarks) = 2
  /\ \A i \in 1..2 : HasDescription(allTrademarks[i])
  /\ Len(descResults) = 1
  /\ descResults[1].trademark = allTrademarks[1]
  /\ RLt(descResults[1].descriptionSimilarity.semantic,
         thresholds.semanticSimilarity)

----------------------------------------------------------------------------
(* Properties of createSemanticChunks *)

\* the text holds a three-digit field code in front of letters, with or
\* without a space between them
HoldsFieldCode(runs) ==
  \E i \in 1..(Len(runs) - 1) :
    /\ runs[i] = Code
    /\ \/ runs[i + 1].kind = "letter"
       \/ /\ runs[i + 1].kind = "space"
          /\ i + 2 <= Len(runs)
          /\ runs[i + 2].kind = "letter"

\* C23: for a text that went through preprocessTrademarkText no chunk that
\* createSemanticChunks returns is longer than 2 * chunkSize when it holds
\* field codes, a longer window being split at them, and no fragment of 50
\* characters or fewer is returned
C23_OversizedResplit ==
  (splitter.pc = "returned" /\ splitter.via = "processDocument") =>
    \A k \in 1..Len(splitter.chunks) :
      /\ RunsLength(splitter.chunks[k]) > MinFragment
      /\ HoldsFieldCode(splitter.chunks[k]) =>
           RunsLength(splitter.chunks[k]) <= 2 * chunkSize

=============================================================================
